---- MODULE Spec2Model ----
(***************************************************************************)
(* Model of the ambient music generator: the Composer with its Sequencer   *)
(* and four synthesis layers (src/composer.py) and the SoundEngine that    *)
(* shares it between the audio callback and the polling thread             *)
(* (src/sound_engine.py).                                                  *)
(*                                                                         *)
(* Numbers.  Python floats are modelled in fixed point:                    *)
(*   amplitudes, envelopes, samples   in 1/Unit        (Unit = 1.0)        *)
(*   frequencies                      in 1/FreqUnit Hz                     *)
(*   phases                           in 1/PhaseUnit of a cycle (2*pi)     *)
(*   nervousness, richness            in tenths / hundredths               *)
(* Quantities whose exact value decides a branch (mean nervousness, bpm,   *)
(* the beat number) are exact rationals <<numerator, denominator>>.        *)
(***************************************************************************)
EXTENDS Integers, Naturals, Sequences, FiniteSets, TLC

VARIABLES
    clock,       \* time.time() - sequencer.start_time, in ticks
    sequencer,   \* Sequencer: bpm, _last_beat
    drone,       \* DroneLayer
    arp,         \* ArpLayer
    melody,      \* MelodyLayer (voices, scale, aggregates)
    percussion,  \* PercussionLayer
    composer,    \* Composer's own fields
    out,         \* the buffer returned by the last process / get_samples
    obs,         \* what the last operation did (observation only)
    calls,       \* number of calls made so far, per kind of operation
    lock,        \* SoundEngine._lock: "free" or the thread holding it
    pc,          \* position of each thread of the SoundEngine
    req,         \* the SoundEngine call each thread is in, with its arguments
    main         \* main()'s polling loop: its position and its locals

vars == <<clock, sequencer, drone, arp, melody, percussion, composer, out,
          obs, calls, lock, pc, req, main>>

composerVars == <<sequencer, drone, arp, melody, percussion, composer, out>>
engineVars == <<lock, pc, req>>
mainVars == <<engineVars, main>>

----------------------------------------------------------------------------
(* Bounds of the model *)

MaxClock == 3          \* last clock tick explored
MaxProcess == 2        \* process calls explored in one run
MaxSensors == 2        \* longest personality list passed to update_from_sensors
MaxSeqClock == 8       \* last clock tick explored for a Sequencer alone
MaxSchedClock == 3     \* last clock tick explored under scheduling changes
MaxSchedProcess == 3   \* process calls explored under scheduling changes
MaxDroneUpdates == 2   \* update_from_lamps calls explored for a DroneLayer alone
MaxDroneRenders == 3   \* get_samples calls explored for a DroneLayer alone
MaxCallbacks == 1      \* _audio_callback invocations explored
MaxEngineCalls == 1    \* update and trigger calls explored on the SoundEngine
MaxSamples == 2        \* largest num_samples requested

----------------------------------------------------------------------------
(* Units of the fixed-point representation *)

Unit == 10000          \* 1.0 for amplitudes, envelopes and samples
FreqUnit == 100        \* 1 Hz
PhaseUnit == 1000      \* one cycle (2*pi radians)
SinUnit == 1000        \* 1.0 for the values of sin
LfoUnit == 1000000     \* one cycle of the drone's slow LFO
\* 1.0 for the kick envelope: fine enough for the envelope to outlast the
\* fall of kick_freq from 150 Hz to its floor, as it does in floats
KickUnit == 100 * Unit
TicksPerSecond == 2    \* clock ticks in one second

----------------------------------------------------------------------------
(* src/config.py *)

SAMPLE_RATE == 44100
BUFFER_SIZE == 512
BASE_FREQUENCY == 26163
SCALE_FREQUENCIES ==
    [major |-> <<0, 2, 4, 5, 7, 9, 11>>,
     minor |-> <<0, 2, 3, 5, 7, 8, 10>>,
     pentatonic |-> <<0, 2, 4, 7, 9>>]

----------------------------------------------------------------------------
(* Arithmetic helpers *)

Abs(x) == IF x < 0 THEN -x ELSE x
Min(a, b) == IF a < b THEN a ELSE b
Max(a, b) == IF a > b THEN a ELSE b

\* division rounding toward zero, for the products of fixed-point values
TDiv(a, b) == IF a >= 0 THEN a \div b ELSE -((-a) \div b)

\* x * num / den in fixed point
Scale(x, num, den) == TDiv(x * num, den)

RECURSIVE GCD(_, _)
GCD(a, b) == IF b = 0 THEN a ELSE GCD(b, a % b)

\* exact rationals <<n, d>> with d > 0, in lowest terms
Rat(n, d) ==
    LET g == GCD(Abs(n), d) IN
    IF n = 0 THEN <<0, 1>> ELSE <<n \div g, d \div g>>
RInt(k) == <<k, 1>>
RAdd(p, q) == Rat(p[1] * q[2] + q[1] * p[2], p[2] * q[2])
RMul(p, q) == Rat(p[1] * q[1], p[2] * q[2])
RLess(p, q) == p[1] * q[2] < q[1] * p[2]
RFloor(p) == p[1] \div p[2]

RECURSIVE SumSeq(_)
SumSeq(s) == IF s = <<>> THEN 0 ELSE Head(s) + SumSeq(Tail(s))

\* sequences over S of length at most n
SeqUpTo(S, n) == UNION {[1..k -> S] : k \in 0..n}

Zeros(n) == [i \in 1..n |-> 0]

\* the element of a one-element set; {F(x) : x \in {e}} computes e once, however
\* often F uses x
Only(S) == CHOOSE x \in S : TRUE

\* math.sin of a phase given in 1/unit of a cycle: a table of 16 points per
\* cycle, linearly interpolated; the result is in 1/SinUnit
SinTable == <<0, 383, 707, 924, 1000, 924, 707, 383,
              0, -383, -707, -924, -1000, -924, -707, -383, 0>>
SinOf(phase, unit) ==
    LET p == phase % unit
        idx == (p * 16) \div unit
        frac == (p * 16) % unit
        a == SinTable[idx + 1]
        b == SinTable[idx + 2]
    IN a + TDiv((b - a) * frac, unit)
Sin(phase) == SinOf(phase, PhaseUnit)

\* 2 ** (semitone / 12), in thousandths
SemitoneRatio == <<1000, 1059, 1122, 1189, 1260, 1335, 1414, 1498, 1587, 1682, 1782, 1888>>

\* phase advance of one sample: 2 * pi * freq / sample_rate
PhaseInc(freq, sample_rate) == (freq * PhaseUnit) \div (FreqUnit * sample_rate)

----------------------------------------------------------------------------
(* Strings that the code searches are sequences of one-character strings *)

LowerCase == <<"a", "b", "c", "d", "e", "f", "g", "h", "i", "j", "k", "l", "m",
               "n", "o", "p", "q", "r", "s", "t", "u", "v", "w", "x", "y", "z">>
UpperCase == <<"A", "B", "C", "D", "E", "F", "G", "H", "I", "J", "K", "L", "M",
               "N", "O", "P", "Q", "R", "S", "T", "U", "V", "W", "X", "Y", "Z">>

UpperChar(c) ==
    IF \E i \in 1..26 : LowerCase[i] = c
    THEN UpperCase[CHOOSE i \in 1..26 : LowerCase[i] = c]
    ELSE c

\* str.upper()
Upper(s) == [i \in 1..Len(s) |-> UpperChar(s[i])]

\* str.startswith(prefix)
StartsWith(s, prefix) ==
    /\ Len(prefix) <= Len(s)
    /\ SubSeq(s, 1, Len(prefix)) = prefix

\* pat in s
Contains(s, pat) ==
    \E i \in 1..(Len(s) - Len(pat) + 1) : SubSeq(s, i, i + Len(pat) - 1) = pat

----------------------------------------------------------------------------
(* SensorPersonality (src/composer.py) *)

NoBattery == -1   \* battery is None

PATTERNS == <<"walk", "up", "down", "zigzag", "jump", "repeat", "chord", "trill">>

\* instrument and category chosen by the model chain of __post_init__
SensorKind(model) ==
    IF Contains(model, <<"S", "M", "L", "0", "0", "1">>)
    THEN [instrument_type |-> "pad", sensor_category |-> "motion"]
    ELSE IF Contains(model, <<"S", "M", "L", "0", "0", "2">>)
    THEN [instrument_type |-> "bell", sensor_category |-> "motion"]
    ELSE IF Contains(model, <<"S", "M", "L", "0", "0", "3">>)
    THEN [instrument_type |-> "pad", sensor_category |-> "motion"]
    ELSE IF Contains(model, <<"S", "M", "L", "0", "0", "4">>)
    THEN [instrument_type |-> "chime", sensor_category |-> "motion"]
    ELSE IF StartsWith(model, <<"R", "W", "L">>)
    THEN [instrument_type |-> "pluck", sensor_category |-> "switch"]
    ELSE IF Contains(model, <<"R", "O", "M", "0", "0", "1">>)
    THEN [instrument_type |-> "mallet", sensor_category |-> "button"]
    ELSE IF Contains(model, <<"Z", "G", "P", "S", "W", "I", "T", "C", "H">>)
    THEN [instrument_type |-> "pluck", sensor_category |-> "button"]
    ELSE IF \/ Contains(model, <<"T", "E", "M", "P", "E", "R", "A", "T", "U", "R", "E">>)
            \/ Contains(model, <<"Z", "L", "L", "T", "e", "m", "p", "e", "r", "a", "t", "u", "r", "e">>)
    THEN [instrument_type |-> "string", sensor_category |-> "temp"]
    ELSE IF \/ Contains(model, <<"L", "I", "G", "H", "T", "L", "E", "V", "E", "L">>)
            \/ Contains(model, <<"Z", "L", "L", "L", "i", "g", "h", "t", "L", "e", "v", "e", "l">>)
    THEN [instrument_type |-> "chime", sensor_category |-> "light"]
    ELSE IF Contains(Upper(model), <<"D", "A", "Y", "L", "I", "G", "H", "T">>)
    THEN [instrument_type |-> "pad", sensor_category |-> "daylight"]
    ELSE IF \/ Contains(model, <<"P", "R", "E", "S", "E", "N", "C", "E">>)
            \/ Contains(model, <<"Z", "L", "L", "P", "r", "e", "s", "e", "n", "c", "e">>)
            \/ Contains(model, <<"Z", "H", "A", "P", "r", "e", "s", "e", "n", "c", "e">>)
    THEN [instrument_type |-> "pad", sensor_category |-> "motion"]
    ELSE [instrument_type |-> "sine", sensor_category |-> "motion"]

\* battery -> nervousness, in tenths
BatteryNervousness(battery, sensor_category) ==
    IF battery = NoBattery \/ sensor_category = "button" THEN 1
    ELSE IF battery <= 10 THEN 10
    ELSE IF battery <= 20 THEN 8
    ELSE IF battery <= 35 THEN 5
    ELSE IF battery <= 50 THEN 3
    ELSE 1

\* sensor id and category -> pattern
SensorPattern(sensor_id, sensor_category) ==
    IF sensor_category = "button"
    THEN <<"chord", "jump", "trill">>[(sensor_id % 3) + 1]
    ELSE IF sensor_category = "temp"
    THEN <<"walk", "up", "down">>[(sensor_id % 3) + 1]
    ELSE PATTERNS[(sensor_id % Len(PATTERNS)) + 1]

\* SensorPersonality(sensor_id, name, model, battery) after __post_init__
SensorPersonality(sensor_id, model_str, battery) ==
    LET kind == SensorKind(Upper(model_str)) IN
    [sensor_id |-> sensor_id,
     model |-> model_str,
     battery |-> battery,
     melody_seed |-> sensor_id,
     instrument_type |-> kind.instrument_type,
     nervousness |-> BatteryNervousness(battery, kind.sensor_category),
     pattern_type |-> SensorPattern(sensor_id, kind.sensor_category),
     sensor_category |-> kind.sensor_category]

----------------------------------------------------------------------------
(* Sequencer (src/composer.py) *)

SequencerInit == [bpm |-> RInt(72), last_beat |-> -1]

\* beat_duration = 60.0 / bpm, in seconds
beat_duration(seq) == Rat(60 * seq.bpm[2], seq.bpm[1])

\* current_time = time.time() - start_time, in seconds
current_time(clk) == Rat(clk, TicksPerSecond)

\* current_beat = current_time / beat_duration
current_beat(seq, clk) ==
    LET bd == beat_duration(seq) IN RMul(current_time(clk), Rat(bd[2], bd[1]))

\* set_tempo: bpm = max(40, min(120, bpm))
ClampTempo(bpm) ==
    LET lo == IF RLess(RInt(120), bpm) THEN RInt(120) ELSE bpm
    IN IF RLess(lo, RInt(40)) THEN RInt(40) ELSE lo

\* set_tempo without the lower clamp
set_tempo_NoFloor(seq, bpm) ==
    [seq EXCEPT !.bpm = IF RLess(RInt(120), bpm) THEN RInt(120) ELSE bpm]

set_tempo(seq, bpm) == [seq EXCEPT !.bpm = ClampTempo(bpm)]

\* is_new_beat: <<sequencer afterwards, returned value>>
is_new_beat(seq, clk, subdivision) ==
    LET current == RFloor(RMul(current_beat(seq, clk), RInt(subdivision))) IN
    IF current > seq.last_beat
    THEN <<[seq EXCEPT !.last_beat = current], TRUE>>
    ELSE <<seq, FALSE>>

----------------------------------------------------------------------------
(* DroneLayer (src/composer.py) *)

\* lst[:k]
Take(lst, k) == SubSeq(lst, 1, Min(k, Len(lst)))

DroneInit ==
    [frequencies |-> <<>>,
     target_frequencies |-> <<>>,
     amplitudes |-> <<>>,
     target_amplitudes |-> <<>>,
     phases |-> <<>>,
     lfo_phase |-> 0,
     lamp_personalities |-> <<>>]

\* the while loop of update_from_lamps: one slot per missing target; rnd[k] is
\* the value random.random() * 2 * pi takes for the k-th slot appended
RECURSIVE DroneGrow(_, _, _)
DroneGrow(d, rnd, k) ==
    IF Len(d.frequencies) < Len(d.target_frequencies)
    THEN Only({DroneGrow(d1, rnd, k + 1) : d1 \in
                 {[d EXCEPT
                     !.frequencies = Append(@, d.target_frequencies[Len(d.frequencies) + 1]),
                     !.amplitudes = Append(@, 0),
                     !.phases = Append(@, rnd[k])]}})
    ELSE d

\* update_from_lamps storing all the amplitudes it is given
DroneUpdateFromLamps_AllAmplitudes(d, lamp_frequencies, lamp_amplitudes, personalities, rnd) ==
    DroneGrow([d EXCEPT
                 !.target_frequencies = Take(lamp_frequencies, 6),
                 !.target_amplitudes = lamp_amplitudes,
                 !.lamp_personalities = Take(personalities, 6)],
              rnd, 1)

\* DroneLayer.update_from_lamps
DroneUpdateFromLamps(d, lamp_frequencies, lamp_amplitudes, personalities, rnd) ==
    DroneGrow([d EXCEPT
                 !.target_frequencies = Take(lamp_frequencies, 6),
                 !.target_amplitudes = Take(lamp_amplitudes, 6),
                 !.lamp_personalities = Take(personalities, 6)],
              rnd, 1)

\* the slots update_from_lamps will append for these frequencies
DroneNewSlots(d, lamp_frequencies) ==
    Max(0, Min(6, Len(lamp_frequencies)) - Len(d.frequencies))

\* sum of sin(phase * h) / h for h = from .. upto - 1
RECURSIVE SawSum(_, _, _)
SawSum(phase, h, upto) ==
    IF h >= upto THEN 0
    ELSE TDiv(Sin(phase * h), h) + SawSum(phase, h + 1, upto)

\* _generate_waveform; richness in hundredths, result in 1/SinUnit
GenerateWaveform(phase, waveform, richness) ==
    IF waveform = "sine" THEN Sin(phase)
    ELSE IF waveform = "saw"
    THEN Scale(SawSum(phase, 1, (400 + richness * 6) \div 100), 5, 10)
    ELSE IF waveform = "triangle"
    THEN Sin(phase) + Scale(TDiv(Sin(phase * 3), 9), richness, 100)
    ELSE IF waveform = "square"
    THEN Scale(Sin(phase)
               + Scale(TDiv(Sin(phase * 3), 3), richness, 100)
               + Scale(Scale(TDiv(Sin(phase * 5), 5), richness, 100), 5, 10),
               7, 10)
    ELSE IF waveform = "warm"
    THEN Scale(Sin(phase), 7, 10)
         + Scale(Scale(Sin(phase * 2), 2, 10), richness, 100)
         + Scale(Sin(phase \div 2), 3, 10)
    ELSE IF waveform = "bell"
    THEN Scale(Sin(phase), 5, 10)
         + Scale(Scale(Sin((phase * 24) \div 10), 3, 10), richness, 100)
         + Scale(Scale(Sin((phase * 595) \div 100), 15, 100), richness, 100)
         + Scale(Scale(Sin((phase * 82) \div 10), 5, 100), richness, 100)
    ELSE IF waveform = "pad"
    THEN Scale(Sin(phase), 4, 10)
         + Scale(Sin((phase * 1002) \div 1000), 3, 10)
         + Scale(Sin((phase * 998) \div 1000), 3, 10)
         + Scale(Scale(Sin(phase \div 2), 2, 10), richness, 100)
    ELSE Sin(phase)

\* the slot pass with the amplitude set to its target at once
DroneSlot_Snap(d, j, lfo, sample_rate) ==
    LET freq == d.frequencies[j]
        newFreq == freq + Scale(d.target_frequencies[j] - freq, 1, 10000)
        newAmp == IF j <= Len(d.target_amplitudes) THEN d.target_amplitudes[j] ELSE 0
        newPhase == d.phases[j] + PhaseInc(newFreq, sample_rate)
    IN <<[d EXCEPT !.frequencies[j] = newFreq,
                   !.amplitudes[j] = newAmp,
                   !.phases[j] = newPhase],
         Scale(Scale(Scale(Sin(newPhase), newAmp, SinUnit), lfo, 1000), 25, 100)>>

\* one pass of the slot loop of get_samples for slot j (1-based):
\* <<drone afterwards, the slot's contribution to the sample>>
DroneSlot(d, j, lfo, sample_rate) ==
    LET freq == d.frequencies[j]
        newFreq == freq + Scale(d.target_frequencies[j] - freq, 1, 10000)
        target_amp == IF j <= Len(d.target_amplitudes) THEN d.target_amplitudes[j] ELSE 0
        newAmp == d.amplitudes[j] + Scale(target_amp - d.amplitudes[j], 1, 1000)
        newPhase == d.phases[j] + PhaseInc(newFreq, sample_rate)
        wave_sample ==
            IF j <= Len(d.lamp_personalities)
            THEN GenerateWaveform(newPhase, d.lamp_personalities[j].waveform,
                                  d.lamp_personalities[j].richness)
            ELSE Sin(newPhase)
    IN <<[d EXCEPT !.frequencies[j] = newFreq,
                   !.amplitudes[j] = newAmp,
                   !.phases[j] = newPhase],
         Scale(Scale(Scale(wave_sample, newAmp, SinUnit), lfo, 1000), 25, 100)>>

\* the slot loop without its break: a slot without a target frequency keeps
\* its frequency and amplitude and is still added to the sample
RECURSIVE DroneSlots_NoBreak(_, _, _, _, _)
DroneSlots_NoBreak(d, j, lfo, sample_rate, sample) ==
    IF j > Len(d.frequencies)
    THEN <<d, sample>>
    ELSE IF j > Len(d.target_frequencies)
    THEN DroneSlots_NoBreak(d, j + 1, lfo, sample_rate,
            sample + Scale(Scale(Scale(Sin(d.phases[j]), d.amplitudes[j], SinUnit),
                                 lfo, 1000), 25, 100))
    ELSE Only({DroneSlots_NoBreak(r[1], j + 1, lfo, sample_rate, sample + r[2]) :
                 r \in {DroneSlot(d, j, lfo, sample_rate)}})

\* the slot loop: it stops (break) at the first slot without a target frequency
RECURSIVE DroneSlots(_, _, _, _, _)
DroneSlots(d, j, lfo, sample_rate, sample) ==
    IF j > Len(d.frequencies) \/ j > Len(d.target_frequencies)
    THEN <<d, sample>>
    ELSE Only({DroneSlots(r[1], j + 1, lfo, sample_rate, sample + r[2]) :
                 r \in {DroneSlot(d, j, lfo, sample_rate)}})

\* one pass of the sample loop of get_samples: <<drone afterwards, the sample>>
DroneSample(d, sample_rate) ==
    LET lfo_inc == (15 * LfoUnit) \div (100 * sample_rate)
        d1 == [d EXCEPT !.lfo_phase = @ + lfo_inc]
    IN Only({DroneSlots(d1, 1, lfo, sample_rate, 0) :
               lfo \in {700 + Scale(SinOf(d1.lfo_phase, LfoUnit), 300, SinUnit)}})

\* the sample loop of get_samples, i passes from d on: <<drone afterwards,
\* output so far>>; the passes are made in order, as those of the first half
\* of the range and then those of the second
RECURSIVE DroneLoop(_, _, _, _)
DroneLoop(d, i, sample_rate, output) ==
    IF i = 0 THEN <<d, output>>
    ELSE IF i = 1
    THEN Only({<<r[1], Append(output, r[2])>> : r \in {DroneSample(d, sample_rate)}})
    ELSE Only({DroneLoop(first[1], i - (i \div 2), sample_rate, first[2]) :
                 first \in {DroneLoop(d, i \div 2, sample_rate, output)}})

\* DroneLayer.get_samples: <<drone afterwards, returned list>>
DroneGetSamples(d, num_samples, sample_rate) ==
    IF d.frequencies = <<>>
    THEN <<d, Zeros(num_samples)>>
    ELSE DroneLoop(d, num_samples, sample_rate, <<>>)

----------------------------------------------------------------------------
(* ArpLayer (src/composer.py) *)

ARP_PATTERNS ==
    <<<<0, 1, 2, 1>>,
      <<0, 1, 2, 3, 2, 1>>,
      <<0, 2, 1, 3>>,
      <<0, 0, 1, 2>>>>

ArpInit ==
    [notes |-> <<>>,
     pattern_idx |-> 0,
     current_note |-> 0,
     phase |-> 0,
     envelope |-> 0,
     current_pattern |-> 0]

SetMin(S) == CHOOSE x \in S : \A y \in S : x <= y

\* sorted(S)
RECURSIVE Sorted(_)
Sorted(S) == IF S = {} THEN <<>> ELSE <<SetMin(S)>> \o Sorted(S \ {SetMin(S)})

\* update_notes: sorted(set(f for f in frequencies if f > 0))[:4]
ArpUpdateNotes(a, frequencies) ==
    [a EXCEPT !.notes =
        Take(Sorted({frequencies[i] : i \in {k \in 1..Len(frequencies) : frequencies[k] > 0}}), 4)]

\* trigger_next without the step of pattern_idx
ArpTriggerNext_Stuck(a) ==
    IF a.notes = <<>> THEN a
    ELSE LET pattern == ARP_PATTERNS[(a.current_pattern % Len(ARP_PATTERNS)) + 1]
             note_idx == pattern[(a.pattern_idx % Len(pattern)) + 1]
         IN IF note_idx < Len(a.notes)
            THEN [a EXCEPT !.current_note = a.notes[note_idx + 1], !.envelope = Unit]
            ELSE a

\* trigger_next with the step of pattern_idx inside the if
ArpTriggerNext_AdvanceOnHit(a) ==
    IF a.notes = <<>> THEN a
    ELSE LET pattern == ARP_PATTERNS[(a.current_pattern % Len(ARP_PATTERNS)) + 1]
             note_idx == pattern[(a.pattern_idx % Len(pattern)) + 1]
         IN IF note_idx < Len(a.notes)
            THEN [a EXCEPT !.current_note = a.notes[note_idx + 1],
                           !.envelope = Unit,
                           !.pattern_idx = @ + 1]
            ELSE a

\* trigger_next
ArpTriggerNext(a) ==
    IF a.notes = <<>> THEN a
    ELSE LET pattern == ARP_PATTERNS[(a.current_pattern % Len(ARP_PATTERNS)) + 1]
             note_idx == pattern[(a.pattern_idx % Len(pattern)) + 1]
             hit == IF note_idx < Len(a.notes)
                    THEN [a EXCEPT !.current_note = a.notes[note_idx + 1],
                                   !.envelope = Unit]
                    ELSE a
         IN [hit EXCEPT !.pattern_idx = @ + 1]

\* one pass of the sample loop of get_samples: <<arp afterwards, output so far>>
ArpSample(a, sample_rate, output) ==
    LET env == Scale(a.envelope, 9997, 10000)
        a1 == [a EXCEPT !.envelope = env]
    IN IF env > Unit \div 100
       THEN LET ph == a.phase + PhaseInc(a.current_note, sample_rate)
                sample == Scale(Sin(ph), 7, 10) + Scale(Sin(ph * 2), 2, 10)
                          + Scale(Sin(ph * 3), 1, 10)
            IN <<[a1 EXCEPT !.phase = ph],
                 Append(output, Scale(Scale(sample, env, SinUnit), 35, 100))>>
       ELSE <<a1, Append(output, 0)>>

RECURSIVE ArpLoop(_, _, _, _)
ArpLoop(a, i, sample_rate, output) ==
    IF i = 0 THEN <<a, output>>
    ELSE Only({ArpLoop(r[1], i - 1, sample_rate, r[2]) :
                 r \in {ArpSample(a, sample_rate, output)}})

\* ArpLayer.get_samples: <<arp afterwards, returned list>>
ArpGetSamples(a, num_samples, sample_rate) ==
    IF a.current_note <= 0
    THEN <<a, Zeros(num_samples)>>
    ELSE ArpLoop(a, num_samples, sample_rate, <<>>)

----------------------------------------------------------------------------
(* MelodyVoice (src/composer.py) *)

\* random.Random(seed): a seeded deterministic generator, here a full-period
\* linear congruential generator on RngMod values; random() is state / RngMod
RngMod == 16
RngSeed(seed) == (seed * 7 + 1) % RngMod
RngNext(state) == (state * 5 + 3) % RngMod

\* rng.choice(lst) given the state reached by the draw
RngChoice(state, lst) == lst[((state * Len(lst)) \div RngMod) + 1]

\* SCALE_FREQUENCIES.get(scale_type, SCALE_FREQUENCIES["pentatonic"])
ScaleOf(scale_type) ==
    IF scale_type \in DOMAIN SCALE_FREQUENCIES
    THEN SCALE_FREQUENCIES[scale_type]
    ELSE SCALE_FREQUENCIES["pentatonic"]

\* MelodyVoice(personality)
MelodyVoice(personality) ==
    [personality |-> personality,
     scale |-> SCALE_FREQUENCIES["pentatonic"],
     root_freq |-> BASE_FREQUENCY,
     current_degree |-> 2,
     current_freq |-> 0,
     phase |-> 0,
     envelope |-> 0,
     octave |-> 1,
     pattern_position |-> 0,
     pattern_direction |-> 1,
     rng |-> RngSeed(personality.melody_seed)]

VoiceSetScale(v, scale_type, root_freq) ==
    [v EXCEPT !.scale = ScaleOf(scale_type), !.root_freq = root_freq]

\* the step of trigger_note of a zigzag voice, with the direction negated in
\* the jump branch as well
VoiceStep_FlipAlways(v) ==
    LET s1 == RngNext(v.rng)
        s2 == RngNext(s1)
    IN IF s1 * 10 < v.personality.nervousness * RngMod
       THEN [step |-> RngChoice(s2, <<-3, -2, 2, 3>>), rng |-> s2, dir |-> -v.pattern_direction]
       ELSE [step |-> v.pattern_direction, rng |-> s1, dir |-> -v.pattern_direction]

\* the step trigger_note takes and the generator and direction afterwards;
\* nervousness is in tenths
VoiceStep(v) ==
    LET pattern == v.personality.pattern_type
        s1 == RngNext(v.rng)
        s2 == RngNext(s1)
        s3 == RngNext(s2)
        keep == [step |-> 0, rng |-> s1, dir |-> v.pattern_direction]
    IN IF s1 * 10 < v.personality.nervousness * RngMod
       THEN [keep EXCEPT !.step = RngChoice(s2, <<-3, -2, 2, 3>>), !.rng = s2]
       ELSE IF pattern = "walk"
       THEN [keep EXCEPT !.step = RngChoice(s2, <<-1, 0, 1>>), !.rng = s2]
       ELSE IF pattern = "up"
       THEN [keep EXCEPT !.step = IF s2 * 10 > 3 * RngMod THEN 1 ELSE -1, !.rng = s2]
       ELSE IF pattern = "down"
       THEN [keep EXCEPT !.step = IF s2 * 10 > 3 * RngMod THEN -1 ELSE 1, !.rng = s2]
       ELSE IF pattern = "zigzag"
       THEN [keep EXCEPT !.step = v.pattern_direction, !.dir = -v.pattern_direction]
       ELSE IF pattern = "jump"
       THEN [keep EXCEPT !.step = RngChoice(s2, <<-2, 2>>), !.rng = s2]
       ELSE IF pattern = "repeat"
       THEN IF s2 * 10 > 4 * RngMod
            THEN [keep EXCEPT !.rng = s2]
            ELSE [keep EXCEPT !.step = RngChoice(s3, <<-1, 1>>), !.rng = s3]
       ELSE IF pattern = "chord"
       THEN [keep EXCEPT !.step = RngChoice(s2, <<0, 2, 4, -2, -4>>), !.rng = s2]
       ELSE IF pattern = "trill"
       THEN [keep EXCEPT !.step = IF v.pattern_position % 2 = 0 THEN 1 ELSE -1]
       ELSE keep

\* root_freq * (2 ** (semitone / 12)) * (2 ** octave), octave >= 0
NoteFreq(root_freq, semitone, octave) ==
    Scale(root_freq, SemitoneRatio[semitone + 1], 1000) * (2 ^ octave)

\* trigger_note clamping the degree to the longest scale
VoiceTriggerNote_LongestScale(v) ==
    LET st == VoiceStep(v)
        degree == Max(0, Min(Len(SCALE_FREQUENCIES["major"]) - 1, v.current_degree + st.step))
        semitone == IF degree < Len(v.scale) THEN v.scale[degree + 1] ELSE 0
    IN [v EXCEPT !.rng = st.rng,
                 !.pattern_direction = st.dir,
                 !.current_degree = degree,
                 !.current_freq = NoteFreq(v.root_freq, semitone, v.octave),
                 !.envelope = Unit,
                 !.pattern_position = @ + 1]

\* trigger_note
VoiceTriggerNote(v) ==
    LET st == VoiceStep(v)
        degree == Max(0, Min(Len(v.scale) - 1, v.current_degree + st.step))
        semitone == v.scale[degree + 1]
    IN [v EXCEPT !.rng = st.rng,
                 !.pattern_direction = st.dir,
                 !.current_degree = degree,
                 !.current_freq = NoteFreq(v.root_freq, semitone, v.octave),
                 !.envelope = Unit,
                 !.pattern_position = @ + 1]

\* decay per sample of an instrument, as <<numerator, denominator>>
InstrumentDecay(instrument) ==
    IF instrument = "pluck" THEN <<9995, 10000>>
    ELSE IF instrument = "bell" THEN <<9998, 10000>>
    ELSE IF instrument = "pad" THEN <<99995, 100000>>
    ELSE IF instrument = "chime" THEN <<9997, 10000>>
    ELSE IF instrument = "mallet" THEN <<9993, 10000>>
    ELSE IF instrument = "string" THEN <<99992, 100000>>
    ELSE <<9999, 10000>>

\* the timbre of an instrument at a phase, in 1/SinUnit
InstrumentWave(instrument, phase) ==
    IF instrument = "bell"
    THEN Scale(Sin(phase), 5, 10) + Scale(Sin((phase * 24) \div 10), 3, 10)
         + Scale(Sin((phase * 595) \div 100), 2, 10)
    ELSE IF instrument = "pluck"
    THEN Scale(Sin(phase), 6, 10) + Scale(Sin(phase * 2), 25, 100)
         + Scale(Sin(phase * 3), 15, 100)
    ELSE IF instrument = "chime"
    THEN Scale(Sin(phase), 4, 10) + Scale(Sin(phase * 3), 25, 100)
         + Scale(Sin(phase * 5), 2, 10) + Scale(Sin(phase * 7), 15, 100)
    ELSE IF instrument = "mallet"
    THEN Scale(Sin(phase), 7, 10) + Scale(Sin(phase * 4), 2, 10)
         + Scale(Sin(phase \div 2), 1, 10)
    ELSE IF instrument = "string"
    THEN Scale(Sin(phase), 6, 10) + Scale(Sin(phase * 2), 2, 10)
         + Scale(Sin(phase * 3), 1, 10) + Scale(Sin((phase * 101) \div 100), 1, 10)
    ELSE IF instrument = "pad"
    THEN Scale(Sin(phase), 8, 10) + Scale(Sin(phase \div 2), 2, 10)
    ELSE Sin(phase)

\* one pass of the sample loop of get_samples: <<voice afterwards, output so far>>
VoiceSample(v, sample_rate, output) ==
    LET instrument == v.personality.instrument_type
        decay == InstrumentDecay(instrument)
        env == Scale(v.envelope, decay[1], decay[2])
        v1 == [v EXCEPT !.envelope = env]
    IN IF env > Unit \div 100
       THEN LET ph == v.phase + PhaseInc(v.current_freq, sample_rate)
                sample == InstrumentWave(instrument, ph)
            IN <<[v1 EXCEPT !.phase = ph],
                 Append(output, Scale(Scale(sample, env, SinUnit), 4, 10))>>
       ELSE <<v1, Append(output, 0)>>

RECURSIVE VoiceLoop(_, _, _, _)
VoiceLoop(v, i, sample_rate, output) ==
    IF i = 0 THEN <<v, output>>
    ELSE Only({VoiceLoop(r[1], i - 1, sample_rate, r[2]) :
                 r \in {VoiceSample(v, sample_rate, output)}})

\* MelodyVoice.get_samples: <<voice afterwards, returned list>>
VoiceGetSamples(v, num_samples, sample_rate) ==
    IF v.current_freq <= 0 \/ v.envelope < Unit \div 100
    THEN <<v, Zeros(num_samples)>>
    ELSE VoiceLoop(v, num_samples, sample_rate, <<>>)

----------------------------------------------------------------------------
(* MelodyLayer (src/composer.py) *)

MelodyInit ==
    [voices |-> <<>>,
     active_scale |-> "pentatonic",
     root_freq |-> BASE_FREQUENCY,
     total_nervousness |-> RInt(0),
     complexity |-> 0]

\* the ids of the tracked voices (the keys of the dict)
VoiceIds(m) == DOMAIN m.voices

\* the mean of the nervousness of a list of personalities, 0 for no list
MeanNervousness(personalities) ==
    IF personalities = <<>> THEN RInt(0)
    ELSE Rat(SumSeq([i \in 1..Len(personalities) |-> personalities[i].nervousness]),
             10 * Len(personalities))

\* the for loop of update_personalities giving a tracked voice the personality
\* of the list, and a generator seeded from it
RECURSIVE MelodyAddVoices_Refresh(_, _, _)
MelodyAddVoices_Refresh(m, personalities, k) ==
    IF k > Len(personalities) THEN m
    ELSE LET p == personalities[k]
             created == IF p.sensor_id \in DOMAIN m.voices
                        THEN [m.voices EXCEPT ![p.sensor_id].personality = p,
                                              ![p.sensor_id].rng = RngSeed(p.melody_seed)]
                        ELSE [id \in DOMAIN m.voices \cup {p.sensor_id} |->
                                IF id = p.sensor_id THEN MelodyVoice(p) ELSE m.voices[id]]
             scaled == [created EXCEPT ![p.sensor_id] =
                          VoiceSetScale(@, m.active_scale, m.root_freq)]
         IN Only({MelodyAddVoices_Refresh(m1, personalities, k + 1) :
                    m1 \in {[m EXCEPT !.voices = scaled]}})

\* the for loop of update_personalities over personalities[k..]
RECURSIVE MelodyAddVoices(_, _, _)
MelodyAddVoices(m, personalities, k) ==
    IF k > Len(personalities) THEN m
    ELSE LET p == personalities[k]
             created == IF p.sensor_id \in DOMAIN m.voices
                        THEN m.voices
                        ELSE [id \in DOMAIN m.voices \cup {p.sensor_id} |->
                                IF id = p.sensor_id THEN MelodyVoice(p) ELSE m.voices[id]]
             scaled == [created EXCEPT ![p.sensor_id] =
                          VoiceSetScale(@, m.active_scale, m.root_freq)]
         IN Only({MelodyAddVoices(m1, personalities, k + 1) :
                    m1 \in {[m EXCEPT !.voices = scaled]}})

\* update_personalities dropping the voices whose id is not in the list
MelodyUpdatePersonalities_Pruning(m, personalities) ==
    LET ids == {personalities[i].sensor_id : i \in 1..Len(personalities)}
        m1 == MelodyAddVoices(m, personalities, 1)
    IN [m1 EXCEPT
          !.voices = [id \in DOMAIN m1.voices \cap ids |-> m1.voices[id]],
          !.total_nervousness = MeanNervousness(personalities),
          !.complexity = Len(personalities)]

\* update_personalities adding the mean to the stored one
MelodyUpdatePersonalities_Accumulating(m, personalities) ==
    [MelodyAddVoices(m, personalities, 1) EXCEPT
        !.total_nervousness = RAdd(m.total_nervousness, MeanNervousness(personalities)),
        !.complexity = Len(personalities)]

\* MelodyLayer.update_personalities
MelodyUpdatePersonalities(m, personalities) ==
    [MelodyAddVoices(m, personalities, 1) EXCEPT
        !.total_nervousness = MeanNervousness(personalities),
        !.complexity = Len(personalities)]

\* set_scale that leaves the voices as they are
MelodySetScale_NoBroadcast(m, scale_type, root_freq) ==
    [m EXCEPT !.active_scale = scale_type, !.root_freq = root_freq]

\* MelodyLayer.set_scale
MelodySetScale(m, scale_type, root_freq) ==
    [m EXCEPT !.active_scale = scale_type,
              !.root_freq = root_freq,
              !.voices = [id \in DOMAIN m.voices |->
                            VoiceSetScale(m.voices[id], scale_type, root_freq)]]

\* trigger_random_voice; pick is the voice random.choice returns
MelodyTriggerRandomVoice(m, pick) ==
    IF DOMAIN m.voices # {}
    THEN [m EXCEPT !.voices[pick] = VoiceTriggerNote(@)]
    ELSE m

\* the voices random.choice can return (any id when there is none to choose)
RandomVoiceChoices(m) == IF DOMAIN m.voices = {} THEN {0} ELSE DOMAIN m.voices

\* trigger_by_sensor with one generator for all voices: the call also draws
\* from the generator of every other voice
MelodyTriggerBySensor_SharedRng(m, sensor_id) ==
    IF sensor_id \in DOMAIN m.voices
    THEN [m EXCEPT !.voices =
            [id \in DOMAIN m.voices |->
                IF id = sensor_id THEN VoiceTriggerNote(m.voices[id])
                ELSE [m.voices[id] EXCEPT !.rng = RngNext(@)]]]
    ELSE m

\* MelodyLayer.trigger_by_sensor
MelodyTriggerBySensor(m, sensor_id) ==
    IF sensor_id \in DOMAIN m.voices
    THEN [m EXCEPT !.voices[sensor_id] = VoiceTriggerNote(@)]
    ELSE m

\* 1 / sqrt(active_count), in thousandths
InvSqrt(k) ==
    IF k = 1 THEN 1000 ELSE IF k = 2 THEN 707 ELSE IF k = 3 THEN 577
    ELSE IF k = 4 THEN 500 ELSE IF k = 5 THEN 447 ELSE IF k = 6 THEN 408
    ELSE IF k = 7 THEN 378 ELSE 354

\* the voices get_samples renders: those with envelope > 0.01
ActiveVoices(m) == {id \in DOMAIN m.voices : m.voices[id].envelope > Unit \div 100}

\* MelodyLayer.get_samples: <<melody afterwards, returned list>>
MelodyGetSamples(m, num_samples, sample_rate) ==
    LET active == ActiveVoices(m)
        rendered == [id \in active |-> VoiceGetSamples(m.voices[id], num_samples, sample_rate)]
        mixed == [i \in 1..num_samples |->
                    SumSeq([k \in 1..Cardinality(active) |->
                              rendered[Sorted(active)[k]][2][i]])]
        output == IF Cardinality(active) > 1
                  THEN [i \in 1..num_samples |-> Scale(mixed[i], InvSqrt(Cardinality(active)), 1000)]
                  ELSE mixed
    IN <<[m EXCEPT !.voices = [id \in DOMAIN m.voices |->
                                 IF id \in active THEN rendered[id][1] ELSE m.voices[id]]],
         output>>

----------------------------------------------------------------------------
(* PercussionLayer (src/composer.py) *)

\* PercussionInit with the kick envelope left at 1.0
PercussionInit_KickRinging ==
    [kick_envelope |-> KickUnit,
     kick_freq |-> 60 * FreqUnit,
     kick_phase |-> 0,
     hat_envelope |-> 0,
     hat_noise |-> 0]

PercussionInit ==
    [kick_envelope |-> 0,
     kick_freq |-> 60 * FreqUnit,
     kick_phase |-> 0,
     hat_envelope |-> 0,
     hat_noise |-> 0]

TriggerKick(p) == [p EXCEPT !.kick_envelope = KickUnit, !.kick_freq = 150 * FreqUnit]

TriggerHat(p) == [p EXCEPT !.hat_envelope = Unit \div 2]

\* one sample of get_samples without the floor of kick_freq
PercussionSample_NoFloor(p, noise, sample_rate) ==
    LET kickOn == p.kick_envelope > KickUnit \div 100
        kenv == Scale(p.kick_envelope, 997, 1000)
        kfreq == Scale(p.kick_freq, 999, 1000)
        kphase == p.kick_phase + PhaseInc(kfreq, sample_rate)
        p1 == IF kickOn
              THEN [p EXCEPT !.kick_envelope = kenv, !.kick_freq = kfreq, !.kick_phase = kphase]
              ELSE p
        kick == IF kickOn
                THEN Scale(Scale(Sin(kphase), kenv, SinUnit), 5, 10 * (KickUnit \div Unit))
                ELSE 0
    IN <<p1, kick>>

\* one sample of get_samples; noise is the value random.random() * 2 - 1 takes
PercussionSample(p, noise, sample_rate) ==
    LET kickOn == p.kick_envelope > KickUnit \div 100
        kenv == Scale(p.kick_envelope, 997, 1000)
        kfreq == Max(40 * FreqUnit, Scale(p.kick_freq, 999, 1000))
        kphase == p.kick_phase + PhaseInc(kfreq, sample_rate)
        p1 == IF kickOn
              THEN [p EXCEPT !.kick_envelope = kenv, !.kick_freq = kfreq, !.kick_phase = kphase]
              ELSE p
        kick == IF kickOn
                THEN Scale(Scale(Sin(kphase), kenv, SinUnit), 5, 10 * (KickUnit \div Unit))
                ELSE 0
        hatOn == p.hat_envelope > Unit \div 100
        henv == Scale(p.hat_envelope, 995, 1000)
        hnoise == Scale(p.hat_noise, 7, 10) + Scale(noise, 3, 10)
        p2 == IF hatOn
              THEN [p1 EXCEPT !.hat_envelope = henv, !.hat_noise = hnoise]
              ELSE p1
        hat == IF hatOn THEN Scale(Scale(hnoise, henv, Unit), 25, 100) ELSE 0
    IN <<p2, kick + hat>>

\* the sample loop of get_samples for the samples i .. num_samples:
\* <<percussion afterwards, output so far>>; the passes are made in order, as
\* those of the first half of the range and then those of the second
RECURSIVE PercussionLoop(_, _, _, _, _, _)
PercussionLoop(p, i, num_samples, sample_rate, noise, output) ==
    IF i > num_samples THEN <<p, output>>
    ELSE IF i = num_samples
    THEN Only({<<r[1], Append(output, r[2])>> :
                 r \in {PercussionSample(p, noise[i], sample_rate)}})
    ELSE Only({PercussionLoop(first[1], ((i + num_samples) \div 2) + 1, num_samples,
                              sample_rate, noise, first[2]) :
                 first \in {PercussionLoop(p, i, (i + num_samples) \div 2, sample_rate,
                                           noise, output)}})

\* PercussionLayer.get_samples; noise[i] is the random value drawn for sample i:
\* <<percussion afterwards, returned list>>
PercussionGetSamples(p, num_samples, sample_rate, noise) ==
    PercussionLoop(p, 1, num_samples, sample_rate, noise, <<>>)

----------------------------------------------------------------------------
(* Composer (src/composer.py).  A Composer value is the record of the      *)
(* Composer's own fields together with its sequencer and layers.           *)

NONE == -1   \* sensor_id is None

ComposerFields ==
    [last_arp_beat |-> -1,
     last_melody_beat |-> -1,
     arp_subdivision |-> 2,
     melody_interval |-> 4,
     active_scale |-> "pentatonic",
     sensor_personalities |-> <<>>,
     lamp_personalities |-> <<>>,
     avg_battery |-> RInt(100),
     avg_nervousness |-> RInt(0)]

\* Composer()
ComposerInit ==
    [sequencer |-> SequencerInit,
     drone |-> DroneInit,
     arp |-> ArpInit,
     melody |-> MelodyInit,
     percussion |-> PercussionInit,
     composer |-> ComposerFields]

\* AdaptiveRates with the first threshold compared by >= instead of >
AdaptiveRates_AtLeastHalf(avg_nervousness) ==
    IF ~ RLess(avg_nervousness, Rat(5, 10))
    THEN [arp_subdivision |-> 4, melody_interval |-> 2]
    ELSE IF RLess(Rat(2, 10), avg_nervousness)
    THEN [arp_subdivision |-> 2, melody_interval |-> 4]
    ELSE [arp_subdivision |-> 1, melody_interval |-> 8]

\* the rates update_from_sensors selects for a mean nervousness
AdaptiveRates(avg_nervousness) ==
    IF RLess(Rat(5, 10), avg_nervousness)
    THEN [arp_subdivision |-> 4, melody_interval |-> 2]
    ELSE IF RLess(Rat(2, 10), avg_nervousness)
    THEN [arp_subdivision |-> 2, melody_interval |-> 4]
    ELSE [arp_subdivision |-> 1, melody_interval |-> 8]

\* min(f for f in frequencies if f > 0) if any(f > 0 ...) else BASE_FREQUENCY
RootOf(frequencies) ==
    LET positive == {frequencies[i] : i \in {k \in 1..Len(frequencies) : frequencies[k] > 0}}
    IN IF positive # {} THEN SetMin(positive) ELSE BASE_FREQUENCY

ComposerUpdateFromLamps(c, frequencies, amplitudes, scale, personalities, rnd) ==
    LET c1 == [c EXCEPT
                 !.composer.lamp_personalities = personalities,
                 !.drone = DroneUpdateFromLamps(@, frequencies, amplitudes, personalities, rnd),
                 !.arp = ArpUpdateNotes(@, frequencies),
                 !.composer.active_scale = scale]
    IN IF frequencies # <<>>
       THEN [c1 EXCEPT !.melody = MelodySetScale(@, scale, RootOf(frequencies))]
       ELSE c1

\* ComposerUpdateFromSensors that also recomputes the mean for an empty list
\* (as MelodyLayer does), outside the branch that adapts the rates
ComposerUpdateFromSensors_MeanOfEmpty(c, personalities) ==
    LET c1 == [c EXCEPT
                 !.composer.sensor_personalities = personalities,
                 !.melody = MelodyUpdatePersonalities(@, personalities),
                 !.composer.avg_nervousness = MeanNervousness(personalities)]
        rates == AdaptiveRates(MeanNervousness(personalities))
    IN IF personalities # <<>>
       THEN [c1 EXCEPT
               !.composer.avg_battery =
                   Rat(SumSeq([i \in 1..Len(personalities) |-> personalities[i].battery]),
                       Len(personalities)),
               !.composer.arp_subdivision = rates.arp_subdivision,
               !.composer.melody_interval = rates.melody_interval]
       ELSE c1

ComposerUpdateFromSensors(c, personalities) ==
    LET c1 == [c EXCEPT
                 !.composer.sensor_personalities = personalities,
                 !.melody = MelodyUpdatePersonalities(@, personalities)]
        avg == MeanNervousness(personalities)
        rates == AdaptiveRates(avg)
    IN IF personalities # <<>>
       THEN [c1 EXCEPT
               !.composer.avg_battery =
                   Rat(SumSeq([i \in 1..Len(personalities) |-> personalities[i].battery]),
                       Len(personalities)),
               !.composer.avg_nervousness = avg,
               !.composer.arp_subdivision = rates.arp_subdivision,
               !.composer.melody_interval = rates.melody_interval]
       ELSE c1

\* base_bpm * tempo_modifier * nervousness_boost; tempo_modifier in tenths
TempoFor(tempo_modifier, avg_nervousness) ==
    RMul(RMul(RInt(72), Rat(tempo_modifier, 10)),
         RAdd(RInt(1), RMul(avg_nervousness, Rat(3, 10))))

ComposerUpdateTempo(c, tempo_modifier) ==
    [c EXCEPT !.sequencer =
        set_tempo(@, TempoFor(tempo_modifier, c.composer.avg_nervousness))]

\* trigger_motion; pick is the voice random.choice returns and kick the value
\* of random.random(), in hundredths
ComposerTriggerMotion(c, sensor_id, pick, kick) ==
    LET c1 == IF sensor_id # NONE /\ sensor_id # 0 /\ sensor_id \in DOMAIN c.melody.voices
              THEN [c EXCEPT !.melody = MelodyTriggerBySensor(@, sensor_id)]
              ELSE [c EXCEPT !.melody = MelodyTriggerRandomVoice(@, pick)]
    IN IF kick < 30
       THEN [c1 EXCEPT !.percussion = TriggerKick(@)]
       ELSE c1

\* trigger_button that fires the kick as well
ComposerTriggerButton_WithKick(c, button) ==
    [c EXCEPT !.percussion = TriggerKick(TriggerHat(@)),
              !.arp.current_pattern = button % Len(ARP_PATTERNS)]

\* Composer.trigger_button
ComposerTriggerButton(c, button) ==
    [c EXCEPT !.percussion = TriggerHat(@),
              !.arp.current_pattern = button % Len(ARP_PATTERNS)]

\* int(self.sequencer.current_beat * self.arp_subdivision)
ArpBeat(c, clk) ==
    RFloor(RMul(current_beat(c.sequencer, clk), RInt(c.composer.arp_subdivision)))

\* int(self.sequencer.current_beat / self.melody_interval)
MelodyBeat(c, clk) ==
    RFloor(RMul(current_beat(c.sequencer, clk), Rat(1, c.composer.melody_interval)))

\* the timed arp event of process
ProcessArp(c, clk) ==
    IF ArpBeat(c, clk) > c.composer.last_arp_beat
    THEN [c EXCEPT !.composer.last_arp_beat = ArpBeat(c, clk),
                   !.arp = ArpTriggerNext(@)]
    ELSE c

\* random.random() < 0.3 + avg_nervousness * 0.4, the draw in hundredths
MelodyChance(draw, avg_nervousness) ==
    RLess(Rat(draw, 100), RAdd(Rat(3, 10), RMul(avg_nervousness, Rat(4, 10))))

\* the timed melody event of process
ProcessMelody(c, clk, draw, pick) ==
    IF MelodyBeat(c, clk) > c.composer.last_melody_beat
    THEN LET c1 == [c EXCEPT !.composer.last_melody_beat = MelodyBeat(c, clk)]
         IN IF MelodyChance(draw, c.composer.avg_nervousness)
            THEN [c1 EXCEPT !.melody = MelodyTriggerRandomVoice(@, pick)]
            ELSE c1
    ELSE c

\* the layers' get_samples calls of process and their mix:
\* <<composer afterwards, returned list>>
ComposerRender(c, num_samples, sample_rate, noise) ==
    Only({<<[c EXCEPT !.drone = d[1], !.arp = a[1], !.melody = m[1], !.percussion = p[1]],
            [i \in 1..num_samples |-> d[2][i] + a[2][i] + m[2][i] + p[2][i]]>> :
            d \in {DroneGetSamples(c.drone, num_samples, sample_rate)},
            a \in {ArpGetSamples(c.arp, num_samples, sample_rate)},
            m \in {MelodyGetSamples(c.melody, num_samples, sample_rate)},
            p \in {PercussionGetSamples(c.percussion, num_samples, sample_rate, noise)}})

\* process: <<composer afterwards, returned list>>
ComposerProcess(c, clk, num_samples, sample_rate, draw, pick, noise) ==
    Only({ComposerRender(c1, num_samples, sample_rate, noise) :
            c1 \in {ProcessMelody(ProcessArp(c, clk), clk, draw, pick)}})

----------------------------------------------------------------------------
(* Inputs explored *)

\* the sensors whose personalities are passed to update_from_sensors
HueSensors ==
    {SensorPersonality(0, <<"Z", "L", "L", "P", "r", "e", "s", "e", "n", "c", "e">>, 30),
     SensorPersonality(1, <<"S", "M", "L", "0", "0", "1">>, 100),
     SensorPersonality(2, <<"Z", "L", "L", "T", "e", "m", "p", "e", "r", "a", "t", "u", "r", "e">>, 40),
     SensorPersonality(3, <<"R", "W", "L", "0", "2", "1">>, 5)}

SensorLists == SeqUpTo(HueSensors, MaxSensors)

\* the lamps passed to update_from_lamps: frequency, amplitude and the waveform
\* and richness of the lamp's personality
HueLamps ==
    {[frequency |-> 0, amplitude |-> 0, waveform |-> "sine", richness |-> 25],
     [frequency |-> 220 * FreqUnit, amplitude |-> Unit \div 2, waveform |-> "warm", richness |-> 70],
     [frequency |-> 440 * FreqUnit, amplitude |-> (8 * Unit) \div 10, waveform |-> "saw", richness |-> 80]}

Frequencies(lamps) == [i \in 1..Len(lamps) |-> lamps[i].frequency]
Amplitudes(lamps) == [i \in 1..Len(lamps) |-> lamps[i].amplitude]
Personalities(lamps) ==
    [i \in 1..Len(lamps) |-> [waveform |-> lamps[i].waveform, richness |-> lamps[i].richness]]

ScaleNames == {"pentatonic", "major"}
TempoModifiers == {0, 8, 12, 20}         \* tenths
RandomDraws == {0, 29, 30, 55, 99}       \* values of random.random(), hundredths
RandomPhases == {0, PhaseUnit \div 4}     \* values of random.random() * 2 * pi
NoiseValues == {-Unit, Unit \div 2}       \* values of random.random() * 2 - 1
SensorIds == {NONE, 0, 1, 2, 3}
Buttons == 0..4

----------------------------------------------------------------------------
(* The Composer as a state machine: one action per method, and the clock *)

TheComposer ==
    [sequencer |-> sequencer, drone |-> drone, arp |-> arp, melody |-> melody,
     percussion |-> percussion, composer |-> composer]

Becomes(c) ==
    /\ sequencer' = c.sequencer
    /\ drone' = c.drone
    /\ arp' = c.arp
    /\ melody' = c.melody
    /\ percussion' = c.percussion
    /\ composer' = c.composer

ObsInit ==
    [op |-> "init",          \* the last operation
     arg |-> 0,              \* its scalar argument, if any
     control |-> FALSE,      \* has any update_* or trigger_* call been made
     sensed |-> FALSE,       \* has update_from_sensors been given a non-empty list
     arp_beat |-> NONE,      \* int(current_beat * arp_subdivision) at the last process
     prev_arp_beat |-> NONE, \* the same at the process call before it
     arp_triggers |-> 0,     \* trigger_next calls made by the last process
     sub |-> 0,              \* the subdivision of the last is_new_beat call
     result |-> FALSE,       \* what that call returned
     crossed |-> FALSE,      \* did floor(current_beat * sub) rise since the call before it for sub
     floors |-> <<>>,        \* subdivision -> floor(current_beat * subdivision) at its last call
     asked |-> {},           \* subdivisions asked about in this buffer
     input |-> <<>>,         \* the list arguments of the last call made on a layer
     again |-> FALSE,        \* did the last update repeat the call before it
     fixed |-> TRUE,         \* have all trigger_next calls seen one pool and one pattern
     replay |-> <<>>,        \* sensor id -> the voice replayed from its own calls alone
     made |-> <<>>,          \* the personality made by the last LampPersonality(...)
     born |-> <<>>]          \* sensor id -> the first personality ever passed for it

CallsInit == [process |-> 0, control |-> 0]

Threads == {"audio", "poll"}

\* a thread that is in no SoundEngine method
NoRequest == [op |-> "none", arg |-> 0]

\* main() before its first poll: consecutive_errors = 0, last_params = [],
\* last_env = None, the engine started
MainInit ==
    [at |-> "get_all_lights",   \* the statement of the loop main() is at
     consecutive_errors |-> 0,
     params |-> <<>>,           \* what map_all_lamps made of this poll's lamps
     env |-> NONE,              \* what map_all_sensors made of this poll's sensors
     last_params |-> <<>>,
     last_env |-> NONE,
     stopped |-> FALSE,         \* has engine.stop() been called
     polls |-> 0,               \* iterations of the loop completed
     failed |-> 0]              \* how many of them, the latest ones, raised (observation only)

EngineInit ==
    /\ lock = "free"
    /\ pc = [t \in Threads |-> "idle"]
    /\ req = [t \in Threads |-> NoRequest]

Init ==
    /\ clock = 0
    /\ sequencer = ComposerInit.sequencer
    /\ drone = ComposerInit.drone
    /\ arp = ComposerInit.arp
    /\ melody = ComposerInit.melody
    /\ percussion = ComposerInit.percussion
    /\ composer = ComposerInit.composer
    /\ out = <<>>
    /\ obs = ObsInit
    /\ calls = CallsInit
    /\ EngineInit
    /\ main = MainInit

\* what a control call (update_* or trigger_*) leaves in obs
Controlled(op, arg) == [obs EXCEPT !.op = op, !.arg = arg, !.control = TRUE]

\* what a process call leaves in obs
Processed(c, clk) ==
    [obs EXCEPT !.op = "process",
                !.arg = Len(out'),
                !.prev_arp_beat = obs.arp_beat,
                !.arp_beat = ArpBeat(c, clk),
                !.arp_triggers =
                    IF ProcessArp(c, clk).composer.last_arp_beat # c.composer.last_arp_beat
                    THEN 1 ELSE 0]

\* the noise process can draw: none is drawn while the hat is silent
NoiseChoices(num_samples) ==
    IF percussion.hat_envelope > Unit \div 100
    THEN [1..num_samples -> NoiseValues]
    ELSE {[i \in 1..num_samples |-> 0]}

\* the values process can draw for the melody trigger: none is drawn off a
\* melody beat
DrawChoices ==
    IF MelodyBeat(TheComposer, clock) > composer.last_melody_beat
    THEN RandomDraws
    ELSE {0}

\* a call counted against a limit
Count(kind, limit) ==
    /\ calls[kind] < limit
    /\ calls' = [calls EXCEPT ![kind] = @ + 1]

\* a call made on the Composer directly, not through the SoundEngine: counted
\* against a limit, or not counted
Counted(kind, limit) == Count(kind, limit) /\ UNCHANGED mainVars
Uncounted == UNCHANGED <<calls, mainVars>>

\* wall time passes, up to a last tick
TickTo(last) ==
    /\ clock < last
    /\ clock' = clock + 1
    /\ obs' = [obs EXCEPT !.op = "tick", !.arg = 0]
    /\ UNCHANGED <<composerVars, calls, mainVars>>

\* Composer.process(num_samples, SAMPLE_RATE)
ProcessOf(sizes) ==
    /\ \E num_samples \in sizes, draw \in DrawChoices,
          pick \in RandomVoiceChoices(melody) :
       \E noise \in NoiseChoices(num_samples) :
       \E r \in {ComposerProcess(TheComposer, clock, num_samples, SAMPLE_RATE,
                                 draw, pick, noise)} :
          /\ Becomes(r[1])
          /\ out' = r[2]
    /\ obs' = Processed(TheComposer, clock)
    /\ UNCHANGED clock

\* Composer.update_from_lamps(frequencies, amplitudes, scale, personalities)
UpdateFromLampsOf(lists, scales) ==
    /\ \E lamps \in lists, scale \in scales :
       \E rnd \in [1..DroneNewSlots(drone, Frequencies(lamps)) -> RandomPhases] :
          Becomes(ComposerUpdateFromLamps(TheComposer, Frequencies(lamps), Amplitudes(lamps),
                                          scale, Personalities(lamps), rnd))
    /\ obs' = Controlled("update_from_lamps", 0)
    /\ UNCHANGED <<clock, out>>

\* Composer.update_from_sensors(personalities)
UpdateFromSensorsOf(lists) ==
    /\ \E personalities \in lists :
          /\ Becomes(ComposerUpdateFromSensors(TheComposer, personalities))
          /\ obs' = [Controlled("update_from_sensors", 0) EXCEPT
                        !.sensed = @ \/ personalities # <<>>]
    /\ UNCHANGED <<clock, out>>

\* Composer.update_tempo(tempo_modifier)
UpdateTempoOf(modifiers) ==
    /\ \E tempo_modifier \in modifiers :
          /\ Becomes(ComposerUpdateTempo(TheComposer, tempo_modifier))
          /\ obs' = Controlled("update_tempo", tempo_modifier)
    /\ UNCHANGED <<clock, out>>

\* Composer.trigger_motion(sensor_id)
TriggerMotionOf(ids) ==
    /\ \E sensor_id \in ids, pick \in RandomVoiceChoices(melody), kick \in RandomDraws :
          Becomes(ComposerTriggerMotion(TheComposer, sensor_id, pick, kick))
    /\ obs' = Controlled("trigger_motion", 0)
    /\ UNCHANGED <<clock, out>>

\* Composer.trigger_button(button)
TriggerButtonOf(buttons) ==
    /\ \E button \in buttons :
          Becomes(ComposerTriggerButton(TheComposer, button))
    /\ obs' = Controlled("trigger_button", 0)
    /\ UNCHANGED <<clock, out>>

----------------------------------------------------------------------------
(* Spec: the Composer under sensor and tempo updates, with every list of   *)
(* up to MaxSensors personalities and every tempo modifier.                *)

UpdateFromSensors == UpdateFromSensorsOf(SensorLists) /\ Uncounted
UpdateTempo == UpdateTempoOf(TempoModifiers) /\ Uncounted

Next ==
    \/ UpdateFromSensors
    \/ UpdateTempo

Spec == Init /\ [][Next]_vars

\* the rates the adaptive-rate rule assigns to a mean nervousness v
RuleRates(v) ==
    IF v[1] * 10 > 5 * v[2] THEN <<4, 2>>
    ELSE IF v[1] * 10 > 2 * v[2] THEN <<2, 4>>
    ELSE <<1, 8>>

CurrentRates == <<composer.arp_subdivision, composer.melody_interval>>

\* the mean nervousness of the list last passed to update_from_sensors
ListMean ==
    LET l == composer.sensor_personalities
    IN <<SumSeq([i \in 1..Len(l) |-> l[i].nervousness]), 10 * Len(l)>>

\* C3: right after update_from_sensors with a non-empty list of mean
\* nervousness v the rates are (4, 2) if v > 0.5, (2, 4) if 0.2 < v <= 0.5 and
\* (1, 8) if v <= 0.2, whatever they were before
C3_RatesAfterSensors ==
    (obs.op = "update_from_sensors" /\ composer.sensor_personalities # <<>>)
        => CurrentRates = RuleRates(ListMean)

\* C3 witness: a list of two personalities whose mean is exactly 0.2 was
\* passed while the rates were not (1, 8), and they are (1, 8) now
C3_Witness ==
    /\ obs.op = "update_from_sensors"
    /\ Len(composer.sensor_personalities) = 2
    /\ ListMean[1] * 10 = 2 * ListMean[2]
    /\ CurrentRates = <<1, 8>>
    /\ sequencer.bpm # RInt(72)

\* C4 as claimed: in every reachable state, the initial one included, the
\* rates are those the rule assigns to the current avg_nervousness
C4_RatesFollowVolatility == CurrentRates = RuleRates(composer.avg_nervousness)

\* C4 amended: once update_from_sensors has been given a non-empty list the
\* rates are those the rule assigns to the current avg_nervousness (also after
\* later calls with an empty list); until then they are the constructor's
\* (2, 4) with avg_nervousness 0
C4_RatesFollowVolatilityOnceSensed ==
    IF obs.sensed
    THEN CurrentRates = RuleRates(composer.avg_nervousness)
    ELSE CurrentRates = <<2, 4>> /\ composer.avg_nervousness = RInt(0)

\* C4 witness: an empty list was passed after a nervous one, and the fast rates
\* and the mean that chose them are still in place
C4_Witness ==
    /\ obs.sensed
    /\ obs.op = "update_from_sensors"
    /\ composer.sensor_personalities = <<>>
    /\ CurrentRates = <<4, 2>>
    /\ composer.avg_nervousness # RInt(0)

\* 72 * m * (1 + 0.3 * v) for a modifier m in tenths and a mean v = a / b,
\* as the fraction <<numerator, denominator>>
RawTempo(m, v) == <<72 * m * (10 * v[2] + 3 * v[1]), 100 * v[2]>>

\* the bpm is x clamped to [40, 120]
IsClamped(bpm, x) ==
    IF x[1] < 40 * x[2] THEN bpm = <<40, 1>>
    ELSE IF x[1] > 120 * x[2] THEN bpm = <<120, 1>>
    ELSE bpm[1] * x[2] = x[1] * bpm[2]

\* C9: sequencer.bpm always lies in [40, 120], and right after update_tempo(m)
\* it is 72 * m * (1 + 0.3 * avg_nervousness) clamped to that range
C9_TempoClamped ==
    /\ 40 * sequencer.bpm[2] <= sequencer.bpm[1]
    /\ sequencer.bpm[1] <= 120 * sequencer.bpm[2]
    /\ obs.op = "update_tempo"
          => IsClamped(sequencer.bpm, RawTempo(obs.arg, composer.avg_nervousness))

\* C9 witness: update_tempo with a modifier that would give less than 40 bpm,
\* on a Composer whose mean nervousness is not zero
C9_Witness ==
    /\ obs.op = "update_tempo"
    /\ composer.avg_nervousness # RInt(0)
    /\ obs.arg = 0
    /\ sequencer.bpm = RInt(40)

----------------------------------------------------------------------------
(* SpecFresh: a Composer rendered from construction on, at any clock time, *)
(* up to its first update_* or trigger_* call and the renders after it.    *)

CalmSensor == SensorPersonality(1, <<"S", "M", "L", "0", "0", "1">>, 100)
NervousSensor == SensorPersonality(3, <<"R", "W", "L", "0", "2", "1">>, 5)
WarmLamp ==
    [frequency |-> 220 * FreqUnit, amplitude |-> Unit \div 2, waveform |-> "warm", richness |-> 70]
SawLamp ==
    [frequency |-> 440 * FreqUnit, amplitude |-> (8 * Unit) \div 10, waveform |-> "saw", richness |-> 80]

\* the first update_* or trigger_* call
First == ~obs.control /\ Uncounted

FreshTick == TickTo(MaxClock)
FreshProcess == ProcessOf({1, MaxSamples}) /\ Counted("process", MaxProcess)
FreshUpdateFromLamps ==
    UpdateFromLampsOf({<<>>, <<WarmLamp, SawLamp>>}, {"major"}) /\ First
FreshUpdateFromSensors ==
    UpdateFromSensorsOf({<<>>, <<NervousSensor>>}) /\ First
FreshUpdateTempo == UpdateTempoOf({12}) /\ First
FreshTriggerMotion == TriggerMotionOf({NONE}) /\ First
FreshTriggerButton == TriggerButtonOf({1}) /\ First

NextFresh ==
    \/ FreshTick
    \/ FreshProcess
    \/ FreshUpdateFromLamps
    \/ FreshUpdateFromSensors
    \/ FreshUpdateTempo
    \/ FreshTriggerMotion
    \/ FreshTriggerButton

SpecFresh == Init /\ [][NextFresh]_vars

FreshSounds ==
    /\ obs.control
    /\ obs.op = "process"
    /\ \E i \in 1..Len(out) : out[i] # 0

----------------------------------------------------------------------------
(* SpecSeq: one Sequencer at a fixed tempo, asked by is_new_beat about      *)
(* every subdivision of Subdivisions once per buffer, in any order; wall    *)
(* time advances by one tick between buffers.                               *)

Subdivisions == {1, 2, 4}

\* floor(current_beat * subdivision) now
BeatFloor(subdivision) == RFloor(RMul(current_beat(sequencer, clock), RInt(subdivision)))

\* the next buffer starts: every subdivision is to be asked about again
SeqTick ==
    /\ obs.asked = Subdivisions
    /\ clock < MaxSeqClock
    /\ clock' = clock + 1
    /\ obs' = [obs EXCEPT !.op = "tick", !.arg = 0, !.asked = {}]
    /\ UNCHANGED <<composerVars, calls, mainVars>>

\* Sequencer.is_new_beat(subdivision)
IsNewBeat ==
    /\ \E subdivision \in Subdivisions \ obs.asked :
       \E r \in {is_new_beat(sequencer, clock, subdivision)} :
          /\ sequencer' = r[1]
          /\ obs' = [obs EXCEPT
                        !.op = "is_new_beat",
                        !.sub = subdivision,
                        !.result = r[2],
                        !.crossed = /\ subdivision \in DOMAIN obs.floors
                                    /\ BeatFloor(subdivision) > obs.floors[subdivision],
                        !.floors = [t \in DOMAIN obs.floors \cup {subdivision} |->
                                       IF t = subdivision THEN BeatFloor(subdivision)
                                       ELSE obs.floors[t]],
                        !.asked = @ \cup {subdivision}]
    /\ UNCHANGED <<clock, drone, arp, melody, percussion, composer, out, calls, mainVars>>

NextSeq ==
    \/ SeqTick
    \/ IsNewBeat

SpecSeq == Init /\ [][NextSeq]_vars

\* C7: a call of is_new_beat(s) made after floor(current_beat * s) rose since
\* the previous call for the same s returns true, when every subdivision is
\* asked about in every buffer
C7_EveryCrossingReported ==
    (obs.op = "is_new_beat" /\ obs.crossed) => obs.result

\* C7: such a call is reached
C7_Crossing ==
    /\ obs.op = "is_new_beat"
    /\ obs.crossed
    /\ obs.sub = 1

----------------------------------------------------------------------------
(* SpecSched: a Composer rendered while wall time passes and the polling   *)
(* loop changes the sensors' mean nervousness and the tempo.               *)

SchedTick == TickTo(MaxSchedClock)
SchedProcess == ProcessOf({1}) /\ Counted("process", MaxSchedProcess)
SchedUpdateFromSensors ==
    UpdateFromSensorsOf({<<CalmSensor>>, <<NervousSensor>>}) /\ Uncounted
SchedUpdateTempo == UpdateTempoOf({8, 12}) /\ Uncounted

NextSched ==
    \/ SchedTick
    \/ SchedProcess
    \/ SchedUpdateFromSensors
    \/ SchedUpdateTempo

SpecSched == Init /\ [][NextSched]_vars

\* C6: a process call that finds floor(current_beat * arp_subdivision) greater
\* than the process call before it found it invokes Arp.trigger_next once
C6_ArpStepNeverMissed ==
    (/\ obs.op = "process"
     /\ obs.prev_arp_beat # NONE
     /\ obs.arp_beat > obs.prev_arp_beat) => obs.arp_triggers = 1

\* C6: a process call that found the floor risen did invoke trigger_next
C6_StepTaken ==
    /\ obs.op = "process"
    /\ obs.prev_arp_beat # NONE
    /\ obs.arp_beat > obs.prev_arp_beat
    /\ obs.arp_triggers = 1

\* C8: current_beat never decreases from one state to the next
C8_BeatMonotonic ==
    [][~ RLess(current_beat(sequencer', clock'), current_beat(sequencer, clock))]_vars

\* C8: the clock has advanced and the tempo has been changed
C8_TempoChangedLate ==
    /\ obs.op = "update_tempo"
    /\ clock > 0
    /\ sequencer.bpm # RInt(72)

----------------------------------------------------------------------------
(* SpecDrone: one DroneLayer given lamp lists that grow and shrink, and     *)
(* rendered one audio buffer at a time.                                     *)

DroneLampLists == {<<>>, <<WarmLamp>>, <<WarmLamp, SawLamp>>}

\* DroneLayer.update_from_lamps(lamp_frequencies, lamp_amplitudes, personalities)
DroneUpdate ==
    /\ \E lamps \in DroneLampLists :
       \E rnd \in [1..DroneNewSlots(drone, Frequencies(lamps)) -> RandomPhases] :
          drone' = DroneUpdateFromLamps(drone, Frequencies(lamps), Amplitudes(lamps),
                                        Personalities(lamps), rnd)
    /\ obs' = Controlled("drone.update_from_lamps", 0)
    /\ Counted("control", MaxDroneUpdates)
    /\ UNCHANGED <<clock, sequencer, arp, melody, percussion, composer, out>>

\* DroneLayer.get_samples(BUFFER_SIZE, SAMPLE_RATE)
DroneRender ==
    /\ \E r \in {DroneGetSamples(drone, BUFFER_SIZE, SAMPLE_RATE)} :
          /\ drone' = r[1]
          /\ out' = r[2]
    /\ obs' = [obs EXCEPT !.op = "drone.get_samples", !.arg = BUFFER_SIZE]
    /\ Counted("process", MaxDroneRenders)
    /\ UNCHANGED <<clock, sequencer, arp, melody, percussion, composer>>

NextDrone ==
    \/ DroneUpdate
    \/ DroneRender

SpecDrone == Init /\ [][NextDrone]_vars

\* slots of the drone that have no target frequency
Orphans(d) == {j \in 1..Len(d.frequencies) : j > Len(d.target_frequencies)}

\* the amplitude from which one smoothing step (a factor 0.001) toward zero is
\* above the resolution of the model
Resolvable == Unit \div 10

\* C10: get_samples lowers the amplitude of every slot that has no target
\* and whose amplitude is resolvable
C10_OrphanSlotDecays ==
    [][\A j \in Orphans(drone) :
          (obs'.op = "drone.get_samples" /\ drone.amplitudes[j] >= Resolvable)
              => drone'.amplitudes[j] < drone.amplitudes[j]]_vars

\* C10: a slot has lost its target while sounding, and a buffer was rendered
C10_OrphanSlot ==
    /\ obs.op = "drone.get_samples"
    /\ \E j \in Orphans(drone) : drone.amplitudes[j] >= Resolvable

----------------------------------------------------------------------------
(* SoundEngine (src/sound_engine.py): the audio thread runs                 *)
(* _audio_callback, the polling thread the update and trigger methods; each *)
(* method prepares its arguments, waits for _lock, calls the Composer while *)
(* holding it and releases it.                                              *)

\* Lock.acquire() by thread t on lock l: possible when no thread holds it
CanAcquire_Unguarded(l, t) == TRUE

CanAcquire(l, t) == l = "free"

\* the sensor states polled: presence "None" for a sensor without motion
\* capability, battery NoBattery for None
MotionState ==
    [sensor_id |-> 3, sensor_type |-> <<"Z", "L", "L", "P", "r", "e", "s", "e", "n", "c", "e">>,
     presence |-> "True", battery |-> 15]
FlatMotionState ==
    [sensor_id |-> 1, sensor_type |-> <<"Z", "L", "L", "P", "r", "e", "s", "e", "n", "c", "e">>,
     presence |-> "False", battery |-> 0]
TemperatureState ==
    [sensor_id |-> 2,
     sensor_type |-> <<"Z", "L", "L", "T", "e", "m", "p", "e", "r", "a", "t", "u", "r", "e">>,
     presence |-> "None", battery |-> 40]
SensorStateLists == {<<>>, <<MotionState, TemperatureState>>, <<FlatMotionState>>}

\* the personalities update_sensors builds: one per sensor whose presence is
\* not None, with battery "s.battery or 100"
EnginePersonalities(sensors) ==
    LET motion == SelectSeq(sensors, LAMBDA x : x.presence # "None")
    IN [i \in 1..Len(motion) |->
          SensorPersonality(motion[i].sensor_id, motion[i].sensor_type,
                            IF motion[i].battery = NoBattery \/ motion[i].battery = 0
                            THEN 100 ELSE motion[i].battery)]

\* the lamp parameters polled: a lamp's frequency, amplitude and personality,
\* whether it plays and the scale its colour asks for
PlayingParams == [lamp |-> WarmLamp, playing |-> TRUE, scale_type |-> "major"]
OtherParams == [lamp |-> SawLamp, playing |-> TRUE, scale_type |-> "minor"]
SilentParams == [lamp |-> SawLamp, playing |-> FALSE, scale_type |-> "minor"]
ParamsLists == {<<>>, <<PlayingParams, SilentParams>>, <<PlayingParams, OtherParams>>}

\* playing_params of update, as lamps
Playing(params_list) ==
    LET playing == SelectSeq(params_list, LAMBDA x : x.playing)
    IN [i \in 1..Len(playing) |-> playing[i].lamp]

\* max(set(scales), key=scales.count) if scales else "pentatonic": a most
\* frequent scale, any one of them when several are
MajorityScales(params_list) ==
    LET playing == SelectSeq(params_list, LAMBDA x : x.playing)
        count(sc) == Cardinality({i \in 1..Len(playing) : playing[i].scale_type = sc})
        scales == {playing[i].scale_type : i \in 1..Len(playing)}
    IN IF playing = <<>> THEN {"pentatonic"}
       ELSE {sc \in scales : \A other \in scales : count(sc) >= count(other)}

\* thread t has prepared its arguments and reaches "with self._lock"
Arrive(t, op, arg) ==
    /\ pc[t] = "idle"
    /\ pc' = [pc EXCEPT ![t] = "waiting"]
    /\ req' = [req EXCEPT ![t] = [op |-> op, arg |-> arg]]
    /\ UNCHANGED <<lock, clock, composerVars, obs, main>>

\* thread t is inside "with self._lock" of method op
Holding(t, op) == pc[t] = "running" /\ req[t].op = op

\* a "with self._lock" whose exit leaves the lock with the thread
Release_Held(t) ==
    /\ lock' = lock
    /\ pc' = [pc EXCEPT ![t] = "idle"]
    /\ req' = [req EXCEPT ![t] = NoRequest]
    /\ UNCHANGED <<calls, main>>

\* thread t leaves "with self._lock"
Release(t) ==
    /\ lock' = "free"
    /\ pc' = [pc EXCEPT ![t] = "idle"]
    /\ req' = [req EXCEPT ![t] = NoRequest]
    /\ UNCHANGED <<calls, main>>

\* _audio_callback is invoked with a number of frames
AudioCallback ==
    /\ Count("process", MaxCallbacks)
    /\ Arrive("audio", "process", MaxSamples)

\* update(params_list)
Update ==
    /\ Count("control", MaxEngineCalls)
    /\ \E params_list \in ParamsLists :
       \E scale \in MajorityScales(params_list) :
          Arrive("poll", "update", [lamps |-> Playing(params_list), scale |-> scale])

\* update_sensors(sensors)
UpdateSensors ==
    /\ Count("control", MaxEngineCalls)
    /\ \E sensors \in SensorStateLists :
          Arrive("poll", "update_sensors", EnginePersonalities(sensors))

\* update_environment(env)
UpdateEnvironment ==
    /\ Count("control", MaxEngineCalls)
    /\ \E tempo_modifier \in {8, 12} :
          Arrive("poll", "update_environment", tempo_modifier)

\* trigger_percussion(sensor_id)
TriggerPercussion ==
    /\ Count("control", MaxEngineCalls)
    /\ \E sensor_id \in {NONE, 3} :
          Arrive("poll", "trigger_percussion", sensor_id)

\* trigger_chord_change(button)
TriggerChordChange ==
    /\ Count("control", MaxEngineCalls)
    /\ \E button \in {1} :
          Arrive("poll", "trigger_chord_change", button)

\* a waiting thread takes the lock
Acquire ==
    /\ \E t \in Threads :
          /\ pc[t] = "waiting"
          /\ CanAcquire(lock, t)
          /\ lock' = t
          /\ pc' = [pc EXCEPT ![t] = "running"]
    /\ UNCHANGED <<clock, composerVars, obs, calls, req, main>>

\* the body of "with self._lock" of each method, and the release
Render ==
    /\ Holding("audio", "process")
    /\ ProcessOf({req["audio"].arg})
    /\ Release("audio")

LampsUpdated ==
    /\ Holding("poll", "update")
    /\ UpdateFromLampsOf({req["poll"].arg.lamps}, {req["poll"].arg.scale})
    /\ Release("poll")

SensorsUpdated ==
    /\ Holding("poll", "update_sensors")
    /\ UpdateFromSensorsOf({req["poll"].arg})
    /\ Release("poll")

EnvironmentUpdated ==
    /\ Holding("poll", "update_environment")
    /\ UpdateTempoOf({req["poll"].arg})
    /\ Release("poll")

PercussionTriggered ==
    /\ Holding("poll", "trigger_percussion")
    /\ TriggerMotionOf({req["poll"].arg})
    /\ Release("poll")

ChordChangeTriggered ==
    /\ Holding("poll", "trigger_chord_change")
    /\ TriggerButtonOf({req["poll"].arg})
    /\ Release("poll")

NextEngine ==
    \/ AudioCallback
    \/ Update
    \/ UpdateSensors
    \/ UpdateEnvironment
    \/ TriggerPercussion
    \/ TriggerChordChange
    \/ Acquire
    \/ Render
    \/ LampsUpdated
    \/ SensorsUpdated
    \/ EnvironmentUpdated
    \/ PercussionTriggered
    \/ ChordChangeTriggered

SpecEngine == Init /\ [][NextEngine]_vars

\* the threads that are executing a Composer method
Executing == {t \in Threads : pc[t] = "running"}

\* C1: at most one thread is executing a Composer method, and it holds the
\* lock; so at most one process call is in flight
C1_OneComposerMethodAtATime ==
    /\ Cardinality(Executing) <= 1
    /\ \A t \in Executing : lock = t

\* C1 witness: the polling thread has arrived at the lock for update while
\* the audio thread is inside process
C1_Witness ==
    /\ Holding("audio", "process")
    /\ pc["poll"] = "waiting"
    /\ req["poll"].op = "update"

\* C2: the audio callback is never waiting for the lock while a control
\* method of the polling thread holds it
C2_RenderNeverWaits ==
    ~ (pc["audio"] = "waiting" /\ lock = "poll")

\* C2: the audio callback has arrived at the lock while no thread holds it
C2_RenderArrives ==
    /\ pc["audio"] = "waiting"
    /\ lock = "free"
    /\ calls.control > 0

----------------------------------------------------------------------------
(* SpecTargets: one DroneLayer given frequency, amplitude and personality   *)
(* lists of unrelated lengths, some longer than its six slots, and rendered *)
(* a few samples at a time.                                                 *)

MaxLamps == 7            \* the longest list passed to update_from_lamps
MaxTargetCalls == 4      \* calls made on the drone layer

\* two rows of lamps that differ at every position
LampRow(first, k) ==
    [i \in 1..k |-> IF (i % 2 = 1) = first THEN WarmLamp ELSE SawLamp]

TargetLengths == {0, 2, MaxLamps}

\* sequences of n values of random.random() * 2 * pi: those that alternate
\* between two values
PhaseDraws(n) ==
    {[k \in 1..n |-> IF k % 2 = 0 THEN PhaseUnit \div 4 - p ELSE p] : p \in RandomPhases}

\* what a call made on one layer leaves in obs
Called(op, input) == [obs EXCEPT !.op = op, !.input = input, !.control = TRUE]

\* DroneLayer.update_from_lamps(lamp_frequencies, lamp_amplitudes, personalities)
TargetsUpdate ==
    /\ \E first \in BOOLEAN, kf \in TargetLengths, ka \in {1, MaxLamps}, kp \in {0, MaxLamps} :
       \E input \in {[lamp_frequencies |-> Frequencies(LampRow(first, kf)),
                      lamp_amplitudes |-> Amplitudes(LampRow(first, ka)),
                      personalities |-> Personalities(LampRow(first, kp))]} :
       \E rnd \in PhaseDraws(DroneNewSlots(drone, input.lamp_frequencies)) :
          /\ drone' = DroneUpdateFromLamps(drone, input.lamp_frequencies,
                                           input.lamp_amplitudes, input.personalities, rnd)
          /\ obs' = Called("drone.update_from_lamps", input)
    /\ Counted("control", MaxTargetCalls)
    /\ UNCHANGED <<clock, sequencer, arp, melody, percussion, composer, out>>

\* DroneLayer.get_samples(num_samples, SAMPLE_RATE)
TargetsRender ==
    /\ \E num_samples \in {1, MaxSamples} :
       \E r \in {DroneGetSamples(drone, num_samples, SAMPLE_RATE)} :
          /\ drone' = r[1]
          /\ out' = r[2]
          /\ obs' = [obs EXCEPT !.op = "drone.get_samples", !.arg = num_samples]
    /\ Counted("control", MaxTargetCalls)
    /\ UNCHANGED <<clock, sequencer, arp, melody, percussion, composer>>

NextTargets ==
    \/ TargetsUpdate
    \/ TargetsRender

SpecTargets == Init /\ [][NextTargets]_vars

\* the slots update_from_lamps has appended in this step
NewSlots == (Len(drone.frequencies) + 1)..Len(drone'.frequencies)

\* C11: the stored targets are the first six entries of each list passed to
\* update_from_lamps; there are at most six slots and a call never removes
\* one; frequencies, amplitudes and phases have one entry per slot; a slot
\* just appended is at its target frequency with amplitude 0
C11_TargetsAndSlots ==
    [][obs'.op = "drone.update_from_lamps" =>
          /\ drone'.target_frequencies = Take(obs'.input.lamp_frequencies, 6)
          /\ drone'.target_amplitudes = Take(obs'.input.lamp_amplitudes, 6)
          /\ drone'.lamp_personalities = Take(obs'.input.personalities, 6)
          /\ Len(drone'.target_frequencies) <= 6
          /\ Len(drone'.target_amplitudes) <= 6
          /\ Len(drone.frequencies) <= Len(drone'.frequencies)
          /\ Len(drone'.frequencies) <= 6
          /\ Len(drone'.amplitudes) = Len(drone'.frequencies)
          /\ Len(drone'.phases) = Len(drone'.frequencies)
          /\ \A j \in NewSlots :
                /\ drone'.frequencies[j] = drone'.target_frequencies[j]
                /\ drone'.amplitudes[j] = 0]_vars

\* C11: update_from_lamps was given more than six frequencies and fewer
\* amplitudes, and the drone has six slots
C11_LongList ==
    /\ obs.op = "drone.update_from_lamps"
    /\ Len(obs.input.lamp_frequencies) > 6
    /\ Len(obs.input.lamp_amplitudes) < Len(obs.input.lamp_frequencies)
    /\ Len(drone.frequencies) = 6

\* C12: get_samples(n, sample_rate) of a drone that has no target frequency,
\* with or without slots, returns n zeros
C12_SilentWithoutTargets ==
    (obs.op = "drone.get_samples" /\ drone.target_frequencies = <<>>)
        => out = Zeros(obs.arg)

\* C12: a drone whose slots had started to sound was given empty lists and
\* then rendered
C12_SoundingSlotsLostTargets ==
    /\ obs.op = "drone.get_samples"
    /\ drone.target_frequencies = <<>>
    /\ Len(out) = MaxSamples
    /\ \E j \in 1..Len(drone.frequencies) : drone.amplitudes[j] > 0

\* the slots of the drone that have a target frequency
Targeted(d) == {j \in 1..Len(d.frequencies) : j <= Len(d.target_frequencies)}

\* the amplitude slot j is moved toward: 0 where the amplitude list is shorter
TargetAmp(d, j) == IF j <= Len(d.target_amplitudes) THEN d.target_amplitudes[j] ELSE 0

Between(low, x, high) == Min(low, high) <= x /\ x <= Max(low, high)

\* a value has moved toward its target without reaching or passing it, and
\* its distance to the target has shrunk by the fraction 1/den of what it was
\* (as far as the model resolves it)
Approached(before, after, target, den) ==
    /\ Between(before, after, target)
    /\ before # target => after # target
    /\ Abs(target - after) <= Abs(target - before) - Abs(target - before) \div den

\* C13: a get_samples call leaves the amplitude and the frequency of every
\* slot that has a target between the value before the call and the target,
\* short of the target unless they were on it, and closer to it by at least
\* the smoothing fraction of the distance (0.001 for the amplitude, 0.0001
\* for the frequency), so that under an unchanged target the distance
\* contracts geometrically
C13_SmoothedTowardTarget ==
    [][obs'.op = "drone.get_samples" =>
          \A j \in Targeted(drone) :
              /\ Approached(drone.amplitudes[j], drone'.amplitudes[j],
                            TargetAmp(drone, j), 1000)
              /\ Approached(drone.frequencies[j], drone'.frequencies[j],
                            drone.target_frequencies[j], 10000)]_vars

\* C13: a slot created at one frequency was given another target and
\* rendered: its frequency and its amplitude are on their way
C13_SlotOnItsWay ==
    /\ obs.op = "drone.get_samples"
    /\ \E j \in Targeted(drone) :
          /\ drone.frequencies[j] \notin {WarmLamp.frequency, SawLamp.frequency}
          /\ drone.amplitudes[j] > 0
          /\ drone.amplitudes[j] < TargetAmp(drone, j)

----------------------------------------------------------------------------
(* SpecRefeed: a Composer fed lamp and sensor data, the same data again or  *)
(* other data, and rendered in between.                                     *)

MaxRefeeds == 4          \* calls made on the Composer

RefeedLampLists == {<<>>, <<WarmLamp>>, <<SawLamp, WarmLamp>>, LampRow(TRUE, MaxLamps)}
RefeedSensorLists ==
    {<<>>, <<CalmSensor>>, <<NervousSensor, CalmSensor>>, <<CalmSensor, CalmSensor>>}

\* what an update call leaves in obs
Refed(op, input) ==
    [Called(op, input) EXCEPT !.again = obs.op = op /\ obs.input = input]

\* Composer.update_from_lamps(frequencies, amplitudes, scale, personalities)
RefeedLamps ==
    /\ \E lamps \in RefeedLampLists, scale \in ScaleNames :
       \E rnd \in PhaseDraws(DroneNewSlots(drone, Frequencies(lamps))) :
          /\ Becomes(ComposerUpdateFromLamps(TheComposer, Frequencies(lamps),
                                             Amplitudes(lamps), scale,
                                             Personalities(lamps), rnd))
          /\ obs' = Refed("update_from_lamps", <<lamps, scale>>)
    /\ Counted("control", MaxRefeeds)
    /\ UNCHANGED <<clock, out>>

\* Composer.update_from_sensors(personalities)
RefeedSensors ==
    /\ \E personalities \in RefeedSensorLists :
          /\ Becomes(ComposerUpdateFromSensors(TheComposer, personalities))
          /\ obs' = Refed("update_from_sensors", personalities)
    /\ Counted("control", MaxRefeeds)
    /\ UNCHANGED <<clock, out>>

\* Composer.process(1, SAMPLE_RATE)
RefeedProcess == ProcessOf({1}) /\ Counted("control", MaxRefeeds)

NextRefeed ==
    \/ RefeedLamps
    \/ RefeedSensors
    \/ RefeedProcess

SpecRefeed == Init /\ [][NextRefeed]_vars

\* C14: an update_from_lamps or update_from_sensors call that directly
\* follows the same call with the same arguments leaves the Composer and its
\* layers as they were
C14_RefeedChangesNothing ==
    [][(/\ obs'.op \in {"update_from_lamps", "update_from_sensors"}
        /\ obs.op = obs'.op
        /\ obs.input = obs'.input)
          => TheComposer' = TheComposer]_vars

\* C14: the same non-empty data was fed twice in a row to a Composer that
\* has slots, notes and voices
C14_FedTwice ==
    /\ obs.op \in {"update_from_lamps", "update_from_sensors"}
    /\ obs.again
    /\ obs.input # <<>>
    /\ drone.frequencies # <<>>
    /\ arp.notes # <<>>
    /\ VoiceIds(melody) # {}

----------------------------------------------------------------------------
(* SpecArp: one ArpLayer given note pools, a pattern selection (the         *)
(* assignment trigger_button makes), triggers and renders.                  *)

MaxArpTriggers == 6      \* trigger_next calls
MaxArpControls == 3      \* update_notes calls, pattern selections and get_samples calls

Hz(f) == f * FreqUnit

\* the frequency lists passed to update_notes
ArpPools ==
    {<<>>,
     <<Hz(330)>>,
     <<Hz(440), Hz(0), Hz(220), Hz(440)>>,
     <<Hz(550), Hz(220), Hz(440)>>,
     <<Hz(220), Hz(440), Hz(550), Hz(660)>>,
     <<Hz(880), Hz(660), Hz(550), Hz(440), Hz(330)>>}

\* the pattern current_pattern selects
ArpPattern(a) == ARP_PATTERNS[(a.current_pattern % Len(ARP_PATTERNS)) + 1]

\* what a change of the pool or of the pattern leaves in obs: the pool and
\* the pattern are no longer fixed when a trigger_next call saw other ones
ArpChanged(op, a) ==
    [obs EXCEPT !.op = op,
                !.fixed = @ /\ (calls.process = 0
                                \/ (a.notes = arp.notes
                                    /\ a.current_pattern = arp.current_pattern))]

\* ArpLayer.update_notes(frequencies)
ArpNotes ==
    /\ \E frequencies \in ArpPools :
          /\ arp' = ArpUpdateNotes(arp, frequencies)
          /\ obs' = ArpChanged("arp.update_notes", ArpUpdateNotes(arp, frequencies))
    /\ Counted("control", MaxArpControls)
    /\ UNCHANGED <<clock, sequencer, drone, melody, percussion, composer, out>>

\* arp.current_pattern = button % len(arp.patterns)
ArpSelect ==
    /\ \E button \in Buttons :
       \E a \in {[arp EXCEPT !.current_pattern = button % Len(ARP_PATTERNS)]} :
          /\ arp' = a
          /\ obs' = ArpChanged("arp.current_pattern", a)
    /\ Counted("control", MaxArpControls)
    /\ UNCHANGED <<clock, sequencer, drone, melody, percussion, composer, out>>

\* ArpLayer.trigger_next()
ArpTrigger ==
    /\ arp' = ArpTriggerNext(arp)
    /\ obs' = [obs EXCEPT !.op = "arp.trigger_next"]
    /\ Counted("process", MaxArpTriggers)
    /\ UNCHANGED <<clock, sequencer, drone, melody, percussion, composer, out>>

\* ArpLayer.get_samples(num_samples, SAMPLE_RATE)
ArpRender ==
    /\ \E num_samples \in {1, MaxSamples} :
       \E r \in {ArpGetSamples(arp, num_samples, SAMPLE_RATE)} :
          /\ arp' = r[1]
          /\ out' = r[2]
          /\ obs' = [obs EXCEPT !.op = "arp.get_samples", !.arg = num_samples]
    /\ Counted("control", MaxArpControls)
    /\ UNCHANGED <<clock, sequencer, drone, melody, percussion, composer>>

NextArp ==
    \/ ArpNotes
    \/ ArpSelect
    \/ ArpTrigger
    \/ ArpRender

SpecArp == Init /\ [][NextArp]_vars

\* the note the k-th trigger_next call (k from 0) takes from a pool under a
\* pattern
PatternNote(pool, pattern, k) == pool[pattern[(k % Len(pattern)) + 1] + 1]

\* C15: with a pool of four notes and a pattern that were the same at every
\* trigger_next call since construction, the k-th call (k from 0) leaves
\* current_note at pool[P[k mod len(P)]] and the envelope at 1.0; with the
\* pool 220, 440, 550, 660 Hz and pattern 0 the first four calls leave 220,
\* 440, 550 and 440 Hz
C15_KthTriggerPlaysPatternNote ==
    (obs.op = "arp.trigger_next" /\ obs.fixed /\ Len(arp.notes) = 4)
        => /\ arp.current_note = PatternNote(arp.notes, ArpPattern(arp), calls.process - 1)
           /\ arp.envelope = Unit
           /\ (/\ arp.notes = <<Hz(220), Hz(440), Hz(550), Hz(660)>>
               /\ arp.current_pattern = 0
               /\ calls.process <= 4)
                 => arp.current_note = <<Hz(220), Hz(440), Hz(550), Hz(440)>>[calls.process]

\* C15: the fourth call on the pool 220, 440, 550, 660 Hz under pattern 0
C15_FourthTrigger ==
    /\ obs.op = "arp.trigger_next"
    /\ obs.fixed
    /\ arp.notes = <<Hz(220), Hz(440), Hz(550), Hz(660)>>
    /\ arp.current_pattern = 0
    /\ calls.process = 4

\* the pattern's index at a's cursor lies in a's pool
ArpHit(a) ==
    /\ a.notes # <<>>
    /\ ArpPattern(a)[(a.pattern_idx % Len(ArpPattern(a))) + 1] < Len(a.notes)

\* C16: every trigger_next call raises pattern_idx by one, with an empty pool
\* as well; a call whose index is not in the pool leaves current_note and
\* the envelope as they were
C16_EveryTriggerAdvances ==
    [][obs'.op = "arp.trigger_next" =>
          /\ arp'.pattern_idx = arp.pattern_idx + 1
          /\ ~ArpHit(arp) =>
                /\ arp'.current_note = arp.current_note
                /\ arp'.envelope = arp.envelope]_vars

\* C16: every trigger_next call made with a pool that is not empty raises
\* pattern_idx by one, and a call made with an empty pool changes nothing
C16_TriggerAdvancesUnlessEmpty ==
    [][obs'.op = "arp.trigger_next" =>
          /\ arp.notes # <<>> => arp'.pattern_idx = arp.pattern_idx + 1
          /\ arp.notes = <<>> => arp' = arp
          /\ ~ArpHit(arp) =>
                /\ arp'.current_note = arp.current_note
                /\ arp'.envelope = arp.envelope]_vars

\* C16: trigger_next was called on an empty pool
C16_TriggerOnEmptyPool ==
    /\ obs.op = "arp.trigger_next"
    /\ arp.notes = <<>>
    /\ arp.pattern_idx = 0

\* C16: trigger_next was called with an index beyond a pool that is not
\* empty, while a note was sounding
C16_TriggerBeyondPool ==
    /\ obs.op = "arp.trigger_next"
    /\ arp.notes # <<>>
    /\ arp.pattern_idx > 0
    /\ arp.current_note > 0
    /\ arp.envelope < Unit

----------------------------------------------------------------------------
(* SpecMelody: one MelodyLayer given personality lists and scales, with     *)
(* voices triggered and rendered in between.                                *)

MaxMelodyCalls == 4      \* calls made on the melody layer

PresenceSensor ==
    SensorPersonality(0, <<"Z", "L", "L", "P", "r", "e", "s", "e", "n", "c", "e">>, 30)

MelodyLists ==
    {<<>>, <<CalmSensor>>, <<NervousSensor>>, <<PresenceSensor, CalmSensor>>,
     <<NervousSensor, PresenceSensor>>}

\* scale names, one of them not in SCALE_FREQUENCIES
MelodyScales == {"pentatonic", "major", "blues"}
MelodyRoots == {BASE_FREQUENCY, Hz(220)}

\* the sensor ids in a list of personalities
IdsOf(personalities) == {personalities[i].sensor_id : i \in 1..Len(personalities)}

\* MelodyLayer.update_personalities(personalities)
MelodyUpdate ==
    /\ \E personalities \in MelodyLists :
          /\ melody' = MelodyUpdatePersonalities(melody, personalities)
          /\ obs' = Called("melody.update_personalities", personalities)
    /\ Counted("control", MaxMelodyCalls)
    /\ UNCHANGED <<clock, sequencer, drone, arp, percussion, composer, out>>

\* MelodyLayer.set_scale(scale_type, root_freq)
MelodyScale ==
    /\ \E scale_type \in MelodyScales, root_freq \in MelodyRoots :
          melody' = MelodySetScale(melody, scale_type, root_freq)
    /\ obs' = [obs EXCEPT !.op = "melody.set_scale"]
    /\ Counted("control", MaxMelodyCalls)
    /\ UNCHANGED <<clock, sequencer, drone, arp, percussion, composer, out>>

\* MelodyLayer.trigger_by_sensor(sensor_id) and trigger_random_voice()
MelodyTrigger ==
    /\ \/ \E sensor_id \in {0, 1, 2} :
             melody' = MelodyTriggerBySensor(melody, sensor_id)
       \/ \E pick \in RandomVoiceChoices(melody) :
             melody' = MelodyTriggerRandomVoice(melody, pick)
    /\ obs' = [obs EXCEPT !.op = "melody.trigger"]
    /\ Counted("control", MaxMelodyCalls)
    /\ UNCHANGED <<clock, sequencer, drone, arp, percussion, composer, out>>

\* MelodyLayer.get_samples(num_samples, SAMPLE_RATE)
MelodyRender ==
    /\ \E num_samples \in {1, MaxSamples} :
       \E r \in {MelodyGetSamples(melody, num_samples, SAMPLE_RATE)} :
          /\ melody' = r[1]
          /\ out' = r[2]
          /\ obs' = [obs EXCEPT !.op = "melody.get_samples", !.arg = num_samples]
    /\ Counted("control", MaxMelodyCalls)
    /\ UNCHANGED <<clock, sequencer, drone, arp, percussion, composer>>

NextMelody ==
    \/ MelodyUpdate
    \/ MelodyScale
    \/ MelodyTrigger
    \/ MelodyRender

SpecMelody == Init /\ [][NextMelody]_vars

\* C17: the voice ids grow by exactly the ids passed to update_personalities
\* and change in no other call, so that they are the union of all ids ever
\* passed; update_personalities leaves a voice whose id is not in the list as
\* it was, and changes the envelope, degree, frequency, phase and pattern
\* state of no voice that existed
C17_VoicesKept ==
    [][/\ VoiceIds(melody') =
             VoiceIds(melody) \cup (IF obs'.op = "melody.update_personalities"
                                    THEN IdsOf(obs'.input) ELSE {})
       /\ obs'.op = "melody.update_personalities" =>
             \A id \in VoiceIds(melody) :
                /\ id \notin IdsOf(obs'.input) => melody'.voices[id] = melody.voices[id]
                /\ melody'.voices[id] =
                      [melody.voices[id] EXCEPT !.scale = melody'.voices[id].scale,
                                                !.root_freq = melody'.voices[id].root_freq]]_vars

\* C17: update_personalities was called with a list that omits a voice that
\* is sounding
C17_SoundingVoiceOmitted ==
    /\ obs.op = "melody.update_personalities"
    /\ \E id \in VoiceIds(melody) \ IdsOf(obs.input) : melody.voices[id].envelope > 0

\* C18: every tracked voice has the scale and the root frequency of the layer
C18_VoicesFollowLayerScale ==
    \A id \in VoiceIds(melody) :
        /\ melody.voices[id].scale = ScaleOf(melody.active_scale)
        /\ melody.voices[id].root_freq = melody.root_freq

\* C18: the scale and the root were changed while a voice was tracked that is
\* not in the latest list, and a voice was created afterwards
C18_ScaleChangedForAbsentVoice ==
    /\ obs.op = "melody.update_personalities"
    /\ melody.active_scale = "major"
    /\ melody.root_freq = Hz(220)
    /\ VoiceIds(melody) \ IdsOf(obs.input) # {}
    /\ \E id \in IdsOf(obs.input) : melody.voices[id].pattern_position = 0

----------------------------------------------------------------------------
(* SpecVoice: one MelodyVoice of any step pattern, seed and nervousness,    *)
(* triggered repeatedly while the scale is replaced.                        *)

MaxVoiceTriggers == 6    \* trigger_note calls
MaxVoiceScales == 2      \* set_scale calls

\* motion sensors whose ids give every step pattern under two seeds, with
\* batteries that give the nervousness 0.1, 0.5 and 1.0
VoiceSensors ==
    {SensorPersonality(id, <<"Z", "L", "L", "P", "r", "e", "s", "e", "n", "c", "e">>, battery) :
        id \in 0..(2 * Len(PATTERNS) - 1), battery \in {100, 30, 5}}

\* the voice of the layer, once created
TheVoice == melody.voices[Only(VoiceIds(melody))]

\* MelodyVoice(personality), as update_personalities creates it
VoiceCreate ==
    /\ VoiceIds(melody) = {}
    /\ \E p \in VoiceSensors :
          melody' = MelodyUpdatePersonalities(melody, <<p>>)
    /\ obs' = [obs EXCEPT !.op = "voice.create"]
    /\ Uncounted
    /\ UNCHANGED <<clock, sequencer, drone, arp, percussion, composer, out>>

\* MelodyVoice.set_scale(scale_type, root_freq), as MelodyLayer.set_scale calls it
VoiceScale ==
    /\ \E scale_type \in MelodyScales :
          melody' = MelodySetScale(melody, scale_type, melody.root_freq)
    /\ obs' = [obs EXCEPT !.op = "voice.set_scale"]
    /\ Counted("control", MaxVoiceScales)
    /\ UNCHANGED <<clock, sequencer, drone, arp, percussion, composer, out>>

\* MelodyVoice.trigger_note(), as trigger_by_sensor calls it; obs.arg is the
\* degree the voice had before the call
VoiceTrigger ==
    /\ VoiceIds(melody) # {}
    /\ melody' = MelodyTriggerBySensor(melody, Only(VoiceIds(melody)))
    /\ obs' = [obs EXCEPT !.op = "voice.trigger_note", !.arg = TheVoice.current_degree]
    /\ Counted("process", MaxVoiceTriggers)
    /\ UNCHANGED <<clock, sequencer, drone, arp, percussion, composer, out>>

NextVoice ==
    \/ VoiceCreate
    \/ VoiceScale
    \/ VoiceTrigger

SpecVoice == Init /\ [][NextVoice]_vars

\* C19: after every trigger_note call current_degree is an index of the
\* voice's scale, and the frequency is the one looked up at that index
C19_DegreeInScale ==
    (obs.op = "voice.trigger_note") =>
        /\ TheVoice.current_degree \in 0..(Len(TheVoice.scale) - 1)
        /\ TheVoice.current_freq =
              NoteFreq(TheVoice.root_freq, TheVoice.scale[TheVoice.current_degree + 1],
                       TheVoice.octave)

\* C19: trigger_note was called on a voice whose degree was beyond the end of
\* a scale that had replaced a longer one
C19_TriggerAfterShorterScale ==
    /\ obs.op = "voice.trigger_note"
    /\ obs.arg > Len(TheVoice.scale) - 1

\* does trigger_note take the jump (rng.random() < nervousness) on voice v
Jumps(v) == RngNext(v.rng) * 10 < v.personality.nervousness * RngMod

Zigzag(m) == VoiceIds(m) # {} /\ m.voices[Only(VoiceIds(m))].personality.pattern_type = "zigzag"

\* C20: every trigger_note call on a zigzag voice negates pattern_direction
C20_DirectionFlipsEveryTrigger ==
    [][(obs'.op = "voice.trigger_note" /\ Zigzag(melody))
          => TheVoice'.pattern_direction = -TheVoice.pattern_direction]_vars

\* C20: a trigger_note call on a zigzag voice that takes the pattern step
\* steps by pattern_direction and negates it; a call that takes the jump
\* leaves pattern_direction as it was
C20_DirectionFlipsOnPatternSteps ==
    [][(obs'.op = "voice.trigger_note" /\ Zigzag(melody))
          => IF Jumps(TheVoice)
             THEN TheVoice'.pattern_direction = TheVoice.pattern_direction
             ELSE /\ TheVoice'.pattern_direction = -TheVoice.pattern_direction
                  /\ TheVoice'.current_degree =
                        Max(0, Min(Len(TheVoice.scale) - 1,
                                   TheVoice.current_degree + TheVoice.pattern_direction))]_vars

\* C20: a zigzag voice has taken pattern steps and jumps: after an odd number
\* of calls its direction is the one it was created with
C20_JumpBetweenSteps ==
    /\ obs.op = "voice.trigger_note"
    /\ Zigzag(melody)
    /\ TheVoice.pattern_position % 2 = 1
    /\ TheVoice.pattern_direction = 1

----------------------------------------------------------------------------
(* SpecMotion: a Composer with several melody voices, triggered by motion   *)
(* events for known, unknown and unspecified sensors and by process, while  *)
(* the scale changes.                                                       *)

MaxMotionCalls == 4      \* calls made on the Composer

\* the part of a voice that decides its notes
NoteState(v) ==
    [personality |-> v.personality, scale |-> v.scale, root_freq |-> v.root_freq,
     current_degree |-> v.current_degree, current_freq |-> v.current_freq,
     pattern_position |-> v.pattern_position, pattern_direction |-> v.pattern_direction,
     rng |-> v.rng]

\* has this step called trigger_note on voice id (the only place that
\* raises pattern_position, by one)
Triggered(id) ==
    melody'.voices[id].pattern_position = melody.voices[id].pattern_position + 1

\* the replay of every voice from its own seed, personality, scales and
\* trigger_note calls: a voice is created as MelodyVoice(personality), is
\* given the scale and root its voice holds, and is triggered when its
\* voice is
Replayed ==
    [id \in VoiceIds(melody') |->
        LET held == melody'.voices[id]
            before == IF id \in VoiceIds(melody) THEN obs.replay[id]
                      ELSE MelodyVoice(held.personality)
            scaled == [before EXCEPT !.scale = held.scale, !.root_freq = held.root_freq]
        IN IF id \in VoiceIds(melody) /\ Triggered(id)
           THEN VoiceTriggerNote(scaled)
           ELSE scaled]

MotionSensorLists == {<<PresenceSensor, CalmSensor>>, <<NervousSensor>>}

\* Composer.update_from_sensors(personalities)
MotionSensors ==
    /\ \E personalities \in MotionSensorLists :
          Becomes(ComposerUpdateFromSensors(TheComposer, personalities))
    /\ obs' = [obs EXCEPT !.op = "update_from_sensors", !.replay = Replayed]
    /\ Counted("control", MaxMotionCalls)
    /\ UNCHANGED <<clock, out>>

\* Composer.update_from_lamps(frequencies, amplitudes, scale, personalities)
MotionLamps ==
    /\ \E lamps \in {<<WarmLamp>>}, scale \in ScaleNames :
       \E rnd \in PhaseDraws(DroneNewSlots(drone, Frequencies(lamps))) :
          Becomes(ComposerUpdateFromLamps(TheComposer, Frequencies(lamps), Amplitudes(lamps),
                                          scale, Personalities(lamps), rnd))
    /\ obs' = [obs EXCEPT !.op = "update_from_lamps", !.replay = Replayed]
    /\ Counted("control", MaxMotionCalls)
    /\ UNCHANGED <<clock, out>>

\* Composer.trigger_motion(sensor_id); obs.arg is sensor_id
MotionTrigger ==
    /\ \E sensor_id \in SensorIds, pick \in RandomVoiceChoices(melody), kick \in {29, 30} :
          /\ Becomes(ComposerTriggerMotion(TheComposer, sensor_id, pick, kick))
          /\ obs' = [obs EXCEPT !.op = "trigger_motion", !.arg = sensor_id,
                                 !.replay = Replayed]
    /\ Counted("control", MaxMotionCalls)
    /\ UNCHANGED <<clock, out>>

\* Composer.process(1, SAMPLE_RATE)
MotionProcess ==
    /\ \E draw \in DrawChoices, pick \in RandomVoiceChoices(melody) :
       \E r \in {ComposerProcess(TheComposer, clock, 1, SAMPLE_RATE, draw, pick,
                                 [i \in 1..1 |-> 0])} :
          /\ Becomes(r[1])
          /\ out' = r[2]
    /\ obs' = [obs EXCEPT !.op = "process", !.replay = Replayed]
    /\ Counted("control", MaxMotionCalls)
    /\ UNCHANGED clock

NextMotion ==
    \/ MotionSensors
    \/ MotionLamps
    \/ MotionTrigger
    \/ MotionProcess

SpecMotion == Init /\ [][NextMotion]_vars

\* C21: the degree, frequency, direction, position and generator of every
\* voice are those of its replay from its own seed, personality, scale
\* history and trigger_note calls, whatever was triggered or drawn in between
C21_VoiceFollowsOwnCalls ==
    \A id \in VoiceIds(melody) : NoteState(melody.voices[id]) = NoteState(obs.replay[id])

\* C21: a voice was triggered, then another one, then the first again
C21_TriggersInterleaved ==
    /\ obs.op = "trigger_motion"
    /\ \E a \in VoiceIds(melody), b \in VoiceIds(melody) :
          /\ a # b
          /\ melody.voices[a].pattern_position >= 2
          /\ melody.voices[b].pattern_position >= 1
    /\ percussion.kick_envelope = KickUnit

\* C22: trigger_motion(sensor_id) on a Composer that has voices calls
\* trigger_note on exactly one of them and leaves the others as they were;
\* the one triggered is the voice of sensor_id whenever that id is tracked,
\* whatever its value
C22_MotionTriggersItsVoice ==
    [][(obs'.op = "trigger_motion" /\ VoiceIds(melody) # {}) =>
          /\ \E id \in VoiceIds(melody) :
                /\ melody'.voices[id] = VoiceTriggerNote(melody.voices[id])
                /\ \A other \in VoiceIds(melody) \ {id} :
                      melody'.voices[other] = melody.voices[other]
          /\ obs'.arg \in VoiceIds(melody) =>
                melody'.voices[obs'.arg] = VoiceTriggerNote(melody.voices[obs'.arg])]_vars

\* C22: trigger_motion(0) was called while sensor 0 had a voice, and a voice
\* of another sensor was triggered
C22_MotionOfSensorZero ==
    /\ obs.op = "trigger_motion"
    /\ obs.arg = 0
    /\ 0 \in VoiceIds(melody)
    /\ melody.voices[0].pattern_position = 0
    /\ \E id \in VoiceIds(melody) : melody.voices[id].pattern_position > 0

----------------------------------------------------------------------------
(* SpecEvents: a Composer under all its methods and the clock: lamp and     *)
(* sensor updates with empty and non-empty lists, tempo, motion and button  *)
(* events and process.                                                      *)

MaxEvents == 3           \* calls made on the Composer and ticks of the clock

SilentLamp == [frequency |-> 0, amplitude |-> 0, waveform |-> "sine", richness |-> 25]

EventLampLists == {<<>>, <<SilentLamp>>, <<SawLamp, SilentLamp, WarmLamp>>}
EventSensorLists == {<<>>, <<CalmSensor>>, <<NervousSensor, PresenceSensor>>}

\* Composer.update_from_lamps(frequencies, amplitudes, scale, personalities)
EventLamps ==
    /\ \E lamps \in EventLampLists, scale \in ScaleNames :
       \E rnd \in PhaseDraws(DroneNewSlots(drone, Frequencies(lamps))) :
          /\ Becomes(ComposerUpdateFromLamps(TheComposer, Frequencies(lamps),
                                             Amplitudes(lamps), scale,
                                             Personalities(lamps), rnd))
          /\ obs' = Called("update_from_lamps", <<lamps, scale>>)
    /\ Counted("control", MaxEvents)
    /\ UNCHANGED <<clock, out>>

\* Composer.update_from_sensors(personalities)
EventSensors ==
    /\ \E personalities \in EventSensorLists :
          /\ Becomes(ComposerUpdateFromSensors(TheComposer, personalities))
          /\ obs' = Called("update_from_sensors", personalities)
    /\ Counted("control", MaxEvents)
    /\ UNCHANGED <<clock, out>>

EventTempo == UpdateTempoOf({12}) /\ Counted("control", MaxEvents)
EventMotion == TriggerMotionOf({NONE, 1}) /\ Counted("control", MaxEvents)
EventButton == TriggerButtonOf({1}) /\ Counted("control", MaxEvents)
EventProcess == ProcessOf({1}) /\ Counted("control", MaxEvents)

\* wall time passes
EventTick ==
    /\ clock' = clock + 1
    /\ obs' = [obs EXCEPT !.op = "tick"]
    /\ Counted("control", MaxEvents)
    /\ UNCHANGED composerVars

NextEvents ==
    \/ EventLamps
    \/ EventSensors
    \/ EventTempo
    \/ EventMotion
    \/ EventButton
    \/ EventProcess
    \/ EventTick

SpecEvents == Init /\ [][NextEvents]_vars

\* C23: kick_envelope rises only in trigger_motion, and then to 1.0;
\* hat_envelope rises only in trigger_button, and then to 0.5; kick_freq rises
\* only in trigger_motion; in every other step (process, the updates, the
\* clock) none of the three rises
C23_PercussionFiredByEventsOnly ==
    [][/\ percussion'.kick_envelope > percussion.kick_envelope =>
             obs'.op = "trigger_motion" /\ percussion'.kick_envelope = KickUnit
       /\ percussion'.kick_freq > percussion.kick_freq => obs'.op = "trigger_motion"
       /\ percussion'.hat_envelope > percussion.hat_envelope =>
             obs'.op = "trigger_button" /\ percussion'.hat_envelope = Unit \div 2
       /\ obs'.op \notin {"trigger_motion", "trigger_button", "process"} =>
             percussion' = percussion]_vars

\* C23: process has rendered a kick and a hat that were both fired before
C23_BothDecaying ==
    /\ obs.op = "process"
    /\ percussion.kick_envelope > 0
    /\ percussion.kick_envelope < KickUnit
    /\ percussion.hat_envelope > 0
    /\ percussion.hat_envelope < Unit \div 2

\* C25: after update_from_lamps(frequencies, amplitudes, scale, ...) the
\* melody layer holds the scale passed and, as root, the lowest positive
\* frequency passed, or BASE_FREQUENCY when none is positive or the list is
\* empty
C25_MelodyScaleFollowsLamps ==
    (obs.op = "update_from_lamps") =>
        /\ melody.active_scale = obs.input[2]
        /\ melody.root_freq = RootOf(Frequencies(obs.input[1]))

\* C25: update_from_lamps was called with an empty list and a scale the
\* melody layer did not hold
C25_EmptyLampList ==
    /\ obs.op = "update_from_lamps"
    /\ obs.input[1] = <<>>
    /\ composer.active_scale = obs.input[2]
    /\ melody.active_scale # obs.input[2]

\* C26: after update_from_sensors(personalities) avg_nervousness of the
\* Composer and total_nervousness of the melody layer are both the mean
\* nervousness of the list (0 for an empty list) and complexity is its length
C26_AggregatesRecomputed ==
    (obs.op = "update_from_sensors") =>
        /\ composer.avg_nervousness = MeanNervousness(obs.input)
        /\ melody.total_nervousness = MeanNervousness(obs.input)
        /\ melody.complexity = Len(obs.input)

\* C26: update_from_sensors was called with an empty list after a list of
\* nervous sensors
C26_EmptySensorList ==
    /\ obs.op = "update_from_sensors"
    /\ obs.input = <<>>
    /\ melody.total_nervousness = RInt(0)
    /\ composer.avg_nervousness # RInt(0)

----------------------------------------------------------------------------
(* SpecKick: one PercussionLayer whose kick is fired and rendered in        *)
(* buffers of several sizes until it has died away.                         *)

MaxKickCalls == 5        \* calls made on the percussion layer

\* PercussionLayer.trigger_kick()
KickTrigger ==
    /\ percussion' = TriggerKick(percussion)
    /\ obs' = [obs EXCEPT !.op = "percussion.trigger_kick"]
    /\ Counted("control", MaxKickCalls)
    /\ UNCHANGED <<clock, sequencer, drone, arp, melody, composer, out>>

\* PercussionLayer.get_samples(num_samples, SAMPLE_RATE), the hat silent
KickRender ==
    /\ percussion.hat_envelope <= Unit \div 100
    /\ \E num_samples \in {1, BUFFER_SIZE \div 4, BUFFER_SIZE} :
       \E r \in {PercussionGetSamples(percussion, num_samples, SAMPLE_RATE,
                                      [i \in 1..num_samples |-> 0])} :
          /\ percussion' = r[1]
          /\ out' = r[2]
          /\ obs' = [obs EXCEPT !.op = "percussion.get_samples", !.arg = num_samples]
    /\ Counted("control", MaxKickCalls)
    /\ UNCHANGED <<clock, sequencer, drone, arp, melody, composer>>

NextKick ==
    \/ KickTrigger
    \/ KickRender

SpecKick == Init /\ [][NextKick]_vars

\* C24: kick_freq is at least 40 Hz before and after every step, and no step
\* other than trigger_kick raises it
C24_KickFreqFallsToFloor ==
    [][/\ percussion.kick_freq >= 40 * FreqUnit
       /\ percussion'.kick_freq >= 40 * FreqUnit
       /\ obs'.op # "percussion.trigger_kick" =>
             percussion'.kick_freq <= percussion.kick_freq]_vars

\* C24: the kick has fallen to 40 Hz while it was still sounding
C24_KickAtFloor ==
    /\ obs.op = "percussion.get_samples"
    /\ percussion.kick_freq = 40 * FreqUnit
    /\ percussion.kick_envelope > 0

----------------------------------------------------------------------------
(* SpecPoll: main()'s polling loop. Each of the four collector calls reads   *)
(* the bridge and either returns or raises a connection error; the engine   *)
(* calls between them act on the Composer.                                  *)

MaxPolls == 6            \* iterations of the polling loop explored
max_errors == 5

PollParams == {<<PlayingParams, SilentParams>>}
PollSensors == {<<MotionState, TemperatureState>>}
PollEnvs == {12}

\* main() moves on; the engine is not called
MainStep(m) ==
    /\ main' = m
    /\ UNCHANGED <<clock, composerVars, obs, calls, engineVars>>

\* main() moves on after a call of the engine
MainCalled(m) ==
    /\ main' = m
    /\ UNCHANGED <<calls, engineVars>>

\* the except branch: count the error, give up at max_errors and stop the
\* engine, otherwise feed the engine what it was last given, if anything
Raised ==
    LET errors == main.consecutive_errors + 1
    IN MainStep([main EXCEPT
          !.consecutive_errors = errors,
          !.failed = @ + 1,
          !.at = IF errors >= max_errors THEN "done"
                 ELSE IF main.last_params # <<>> /\ main.last_env # NONE THEN "replay_update"
                 ELSE "sleep",
          !.stopped = errors >= max_errors])

\* lamps = collector.get_all_lights()
GetAllLights ==
    /\ main.at = "get_all_lights"
    /\ main.polls < MaxPolls
    /\ \/ \E params \in PollParams :
             MainStep([main EXCEPT !.at = "get_all_sensors", !.params = params])
       \/ Raised

\* sensors = collector.get_all_sensors(), then consecutive_errors = 0,
\* last_env = env and engine.update_sensors(sensors)
GetAllSensors ==
    /\ main.at = "get_all_sensors"
    /\ \/ \E sensors \in PollSensors, env \in PollEnvs :
             /\ UpdateFromSensorsOf({EnginePersonalities(sensors)})
             /\ MainCalled([main EXCEPT !.at = "get_motion_events",
                                        !.consecutive_errors = 0,
                                        !.env = env, !.last_env = env])
       \/ Raised

\* motion_events = collector.get_motion_events(), then trigger_percussion for
\* the event, if there is one
GetMotionEvents ==
    /\ main.at = "get_motion_events"
    /\ \/ MainStep([main EXCEPT !.at = "get_button_events"])
       \/ /\ TriggerMotionOf({3})
          /\ MainCalled([main EXCEPT !.at = "get_button_events"])
       \/ Raised

\* button_events = collector.get_button_events(), then trigger_chord_change
\* for the event, if there is one
GetButtonEvents ==
    /\ main.at = "get_button_events"
    /\ \/ MainStep([main EXCEPT !.at = "update"])
       \/ /\ TriggerButtonOf({1})
          /\ MainCalled([main EXCEPT !.at = "update"])
       \/ Raised

\* last_params = params; engine.update(params)
PollUpdate ==
    /\ main.at = "update"
    /\ UpdateFromLampsOf({Playing(main.params)}, MajorityScales(main.params))
    /\ MainCalled([main EXCEPT !.at = "update_environment", !.last_params = main.params])

\* engine.update_environment(env): the iteration ends without an error
PollUpdateEnvironment ==
    /\ main.at = "update_environment"
    /\ UpdateTempoOf({main.env})
    /\ MainCalled([main EXCEPT !.at = "sleep", !.failed = 0])

\* engine.update(last_params) of the except branch
ReplayUpdate ==
    /\ main.at = "replay_update"
    /\ UpdateFromLampsOf({Playing(main.last_params)}, MajorityScales(main.last_params))
    /\ MainCalled([main EXCEPT !.at = "replay_environment"])

\* engine.update_environment(last_env) of the except branch
ReplayEnvironment ==
    /\ main.at = "replay_environment"
    /\ UpdateTempoOf({main.last_env})
    /\ MainCalled([main EXCEPT !.at = "sleep"])

\* time.sleep(POLL_INTERVAL), and back to the head of the loop
Sleep ==
    /\ main.at = "sleep"
    /\ MainStep([main EXCEPT !.at = "get_all_lights", !.polls = @ + 1])

\* KeyboardInterrupt: out of the loop, and engine.stop() in the finally branch
Interrupt ==
    /\ main.at # "done"
    /\ MainStep([main EXCEPT !.at = "done", !.stopped = TRUE])

NextPoll ==
    \/ GetAllLights
    \/ GetAllSensors
    \/ GetMotionEvents
    \/ GetButtonEvents
    \/ PollUpdate
    \/ PollUpdateEnvironment
    \/ ReplayUpdate
    \/ ReplayEnvironment
    \/ Sleep
    \/ Interrupt

SpecPoll == Init /\ [][NextPoll]_vars

\* C27: once max_errors iterations in a row have each raised a connection
\* error, at whichever collector call, the loop has ended and the engine is
\* stopped
C27_GivesUpAfterFailedCycles ==
    main.failed >= max_errors => main.at = "done" /\ main.stopped

\* C27: the loop has given up after max_errors errors counted
C27_GaveUp ==
    /\ main.at = "done"
    /\ main.stopped
    /\ main.consecutive_errors = max_errors
    /\ main.failed = max_errors

----------------------------------------------------------------------------
(* LampPersonality (src/composer.py): the personality a lamp is given from  *)
(* its model id, light type, light id and unique id.                        *)

\* the characters from " " to "~" but the grave accent, in the order of their
\* codes
Ascii ==
    <<" ", "!", "\"", "#", "$", "%", "&", "'", "(", ")", "*", "+", ",", "-",
      ".", "/", "0", "1", "2", "3", "4", "5", "6", "7", "8", "9", ":", ";",
      "<", "=", ">", "?", "@", "A", "B", "C", "D", "E", "F", "G", "H", "I",
      "J", "K", "L", "M", "N", "O", "P", "Q", "R", "S", "T", "U", "V", "W",
      "X", "Y", "Z", "[", "\\", "]", "^", "_", "a", "b", "c", "d", "e", "f",
      "g", "h", "i", "j", "k", "l", "m", "n", "o", "p", "q", "r", "s", "t",
      "u", "v", "w", "x", "y", "z", "{", "|", "}", "~">>

\* ord(c)
Ord(c) ==
    LET i == CHOOSE k \in 1..Len(Ascii) : Ascii[k] = c
    IN IF i <= 64 THEN 31 + i ELSE 32 + i

LowerChar(c) ==
    IF \E i \in 1..26 : UpperCase[i] = c
    THEN LowerCase[CHOOSE i \in 1..26 : UpperCase[i] = c]
    ELSE c

\* str.lower()
Lower(s) == [i \in 1..Len(s) |-> LowerChar(s[i])]

\* the branches of __post_init__ that test the model id, in the order of the
\* chain: model.startswith(names), or model == name where whole
LampFamilies == <<
    [whole |-> FALSE, names |-> {<<"L", "C", "T">>},
     waveform |-> "warm", richness |-> 70, character |-> "warm", product_type |-> "bulb"],
    [whole |-> FALSE, names |-> {<<"L", "C", "A">>},
     waveform |-> "warm", richness |-> 75, character |-> "bright", product_type |-> "bulb"],
    [whole |-> FALSE, names |-> {<<"L", "S", "T">>},
     waveform |-> "saw", richness |-> 80, character |-> "sparkle", product_type |-> "strip"],
    [whole |-> FALSE, names |-> {<<"L", "W", "B">>},
     waveform |-> "sine", richness |-> 25, character |-> "neutral", product_type |-> "bulb"],
    [whole |-> FALSE, names |-> {<<"L", "W", "A">>},
     waveform |-> "sine", richness |-> 30, character |-> "soft", product_type |-> "bulb"],
    [whole |-> FALSE, names |-> {<<"L", "T", "W">>, <<"L", "T", "A">>},
     waveform |-> "triangle", richness |-> 50, character |-> "warm", product_type |-> "bulb"],
    [whole |-> FALSE, names |-> {<<"L", "C", "G">>},
     waveform |-> "triangle", richness |-> 60, character |-> "bright", product_type |-> "spot"],
    [whole |-> FALSE, names |-> {<<"L", "C", "F">>},
     waveform |-> "triangle", richness |-> 55, character |-> "deep", product_type |-> "spot"],
    [whole |-> FALSE, names |-> {<<"L", "C", "X">>},
     waveform |-> "square", richness |-> 65, character |-> "deep", product_type |-> "bar"],
    [whole |-> FALSE, names |-> {<<"L", "L", "C">>},
     waveform |-> "bell", richness |-> 70, character |-> "airy", product_type |-> "bloom"],
    [whole |-> FALSE, names |-> {<<"L", "C", "L">>},
     waveform |-> "pad", richness |-> 50, character |-> "deep", product_type |-> "outdoor"],
    [whole |-> FALSE, names |-> {<<"L", "C", "S">>},
     waveform |-> "saw", richness |-> 60, character |-> "sparkle", product_type |-> "outdoor"],
    [whole |-> FALSE, names |-> {<<"L", "W", "O">>},
     waveform |-> "sine", richness |-> 35, character |-> "soft", product_type |-> "outdoor"],
    [whole |-> FALSE, names |-> {<<"L", "O", "M">>},
     waveform |-> "square", richness |-> 20, character |-> "neutral", product_type |-> "plug"],
    [whole |-> TRUE, names |-> {<<"L", "C", "T", "0", "2", "4">>},
     waveform |-> "triangle", richness |-> 65, character |-> "airy", product_type |-> "floor"]>>

\* the test of branch i of the chain
LampBranchTest(i, model) ==
    IF LampFamilies[i].whole
    THEN model \in LampFamilies[i].names
    ELSE \E name \in LampFamilies[i].names : StartsWith(model, name)

\* the if / elif chain: the first branch whose test holds, then the branches
\* on light_type; a branch that sets no product_type leaves the default "bulb"
LampBase(model, light_type) ==
    LET taken == {i \in 1..Len(LampFamilies) : LampBranchTest(i, model)}
        first == CHOOSE i \in taken : \A j \in taken : i <= j
        fam == LampFamilies[first]
    IN IF taken # {}
       THEN [waveform |-> fam.waveform, character |-> fam.character,
             product_type |-> fam.product_type,
             richness |->
                IF first = 3 /\ model \in {<<"L", "S", "T", "0", "0", "3">>, <<"L", "S", "T", "0", "0", "4">>} THEN 90
                ELSE IF first = 10 /\ model = <<"L", "L", "C", "0", "1", "0">> THEN 80
                ELSE fam.richness]
            @@ [branch |-> first]
       ELSE IF Contains(Lower(light_type), <<"o", "u", "t", "d", "o", "o", "r">>)
       THEN [waveform |-> "pad", richness |-> 40, character |-> "deep",
             product_type |-> "outdoor", branch |-> 0]
       ELSE IF Contains(Lower(light_type), <<"c", "o", "l", "o", "r">>)
       THEN [waveform |-> "warm", richness |-> 60, character |-> "warm",
             product_type |-> "bulb", branch |-> 0]
       ELSE [waveform |-> "sine", richness |-> 50, character |-> "neutral",
             product_type |-> "bulb", branch |-> 0]

RECURSIVE OrdSum(_)
\* sum(ord(c) for c in unique_id)
OrdSum(s) == IF s = <<>> THEN 0 ELSE Ord(Head(s)) + OrdSum(Tail(s))

\* LampPersonality(light_id, name, model_id, light_type, unique_id) after
\* __post_init__; richness and attack in hundredths
LampPersonality(light_id, model_id, light_type, unique_id) ==
    LET model == IF model_id # <<>> THEN Upper(model_id) ELSE <<>>
        base == LampBase(model, light_type)
        character == IF base.branch = 10 /\ model = <<"L", "L", "C", "0", "1", "0">> THEN "sparkle"
                     ELSE base.character
        hash_val == OrdSum(unique_id)
        varied == IF unique_id # <<>> THEN base.richness + ((hash_val % 20) - 10)
                  ELSE base.richness
        richness == IF Contains(light_type, <<"E", "x", "t", "e", "n", "d", "e", "d", " ", "c", "o", "l", "o", "r">>)
                    THEN Min(100, varied + 15)
                    ELSE IF Contains(light_type, <<"D", "i", "m", "m", "a", "b", "l", "e">>)
                    THEN Max(15, varied - 10)
                    ELSE varied
    IN [light_id |-> light_id, model_id |-> model_id, light_type |-> light_type,
        unique_id |-> unique_id,
        waveform |-> base.waveform,
        octave_offset |-> (light_id % 5) - 2,
        richness |-> richness,
        attack |-> IF unique_id # <<>> THEN 5 + (hash_val % 10) * 2 ELSE 10,
        character |-> character,
        product_type |-> base.product_type]

----------------------------------------------------------------------------
(* SpecLamp: lamps of every family the chain names, of several light types, *)
(* ids and unique ids, are given their personality.                         *)

LampModels ==
    {<<"L", "C", "T", "0", "0", "7">>, <<"L", "C", "T", "0", "2", "4">>,
     <<"L", "C", "A", "0", "0", "1">>, <<"L", "S", "T", "0", "0", "2">>,
     <<"L", "S", "T", "0", "0", "3">>, <<"L", "W", "B", "0", "1", "0">>,
     <<"L", "W", "A", "0", "0", "1">>, <<"L", "T", "W", "0", "0", "1">>,
     <<"L", "T", "A", "0", "0", "1">>, <<"L", "C", "G", "0", "0", "2">>,
     <<"L", "C", "F", "0", "0", "1">>, <<"L", "C", "X", "0", "0", "1">>,
     <<"L", "L", "C", "0", "1", "0">>, <<"L", "L", "C", "0", "1", "1">>,
     <<"L", "C", "L", "0", "0", "1">>, <<"L", "C", "S", "0", "0", "1">>,
     <<"L", "W", "O", "0", "0", "1">>, <<"L", "O", "M", "0", "0", "1">>,
     <<"l", "c", "t", "0", "2", "4">>, <<"A", "B", "C", "1", "2", "3">>, <<>>}
LampTypes ==
    {<<"E", "x", "t", "e", "n", "d", "e", "d", " ", "c", "o", "l", "o", "r", " ", "l", "i", "g", "h", "t">>,
     <<"D", "i", "m", "m", "a", "b", "l", "e", " ", "l", "i", "g", "h", "t">>,
     <<"C", "o", "l", "o", "r", " ", "t", "e", "m", "p", "e", "r", "a", "t", "u", "r", "e", " ", "l", "i", "g", "h", "t">>,
     <<"O", "u", "t", "d", "o", "o", "r", " ", "l", "a", "m", "p">>,
     <<"O", "n", "/", "O", "f", "f", " ", "p", "l", "u", "g", "-", "i", "n", " ", "u", "n", "i", "t">>}
LampUniqueIds ==
    {<<>>, <<"0", "0", ":", "1", "7", ":", "8", "8", ":", "0", "1">>,
     <<"0", "0", ":", "1", "7", ":", "8", "8", ":", "0", "b", "-", "0">>}
LampIds == {1, 7}
MaxLampCalls == 1        \* LampPersonality objects made in one behaviour

\* LampPersonality(light_id=..., model_id=..., light_type=..., unique_id=...)
LampCreate ==
    /\ \E light_id \in LampIds, model_id \in LampModels, light_type \in LampTypes,
          unique_id \in LampUniqueIds :
          obs' = [obs EXCEPT !.op = "LampPersonality",
                             !.made = LampPersonality(light_id, model_id, light_type, unique_id)]
    /\ UNCHANGED <<clock, composerVars>>
    /\ Counted("control", MaxLampCalls)

NextLamp ==
    \/ LampCreate

SpecLamp == Init /\ [][NextLamp]_vars

\* the model id as the chain tests it
Model(personality) ==
    IF personality.model_id # <<>> THEN Upper(personality.model_id) ELSE <<>>

\* C28: a lamp whose model id passes the test of a branch of the chain has
\* the waveform and the product type of that branch, for every branch
C28_EveryBranchYieldsItsPersonality ==
    obs.op = "LampPersonality" =>
        \A i \in 1..Len(LampFamilies) :
            LampBranchTest(i, Model(obs.made)) =>
                /\ obs.made.waveform = LampFamilies[i].waveform
                /\ obs.made.product_type = LampFamilies[i].product_type

\* C28: a Signe floor lamp has been given its personality
C28_SigneFloorLamp ==
    /\ obs.op = "LampPersonality"
    /\ obs.made.model_id = <<"L", "C", "T", "0", "2", "4">>

----------------------------------------------------------------------------
(* SpecPersona: one MelodyLayer given lists in which a sensor id comes back *)
(* with another battery level and another model, its voices triggered and   *)
(* rendered in between.                                                     *)

MaxPersonaCalls == 4     \* calls made on the melody layer

\* sensor 3 as a temperature sensor with a full battery: instrument string,
\* nervousness 0.1, pattern walk, where NervousSensor has pluck, 1.0, zigzag
ReplacedSensor ==
    SensorPersonality(3, <<"Z", "L", "L", "T", "e", "m", "p", "e", "r", "a", "t", "u", "r", "e">>, 100)

PersonaLists ==
    {<<>>, <<NervousSensor>>, <<ReplacedSensor>>, <<CalmSensor, ReplacedSensor>>,
     <<NervousSensor, ReplacedSensor>>}

\* born, extended by the ids a list brings for the first time
Born(born, personalities) ==
    [id \in DOMAIN born \cup IdsOf(personalities) |->
        IF id \in DOMAIN born THEN born[id]
        ELSE personalities[CHOOSE i \in 1..Len(personalities) :
                              /\ personalities[i].sensor_id = id
                              /\ \A j \in 1..(i - 1) : personalities[j].sensor_id # id]]

\* MelodyLayer.update_personalities(personalities)
PersonaUpdate ==
    /\ \E personalities \in PersonaLists :
          /\ melody' = MelodyUpdatePersonalities(melody, personalities)
          /\ obs' = [Called("melody.update_personalities", personalities) EXCEPT
                        !.born = Born(obs.born, personalities)]
    /\ Counted("control", MaxPersonaCalls)
    /\ UNCHANGED <<clock, sequencer, drone, arp, percussion, composer, out>>

\* MelodyLayer.trigger_by_sensor(sensor_id)
PersonaTrigger ==
    /\ \E sensor_id \in {1, 3} :
          /\ melody' = MelodyTriggerBySensor(melody, sensor_id)
          /\ obs' = [obs EXCEPT !.op = "melody.trigger_by_sensor", !.arg = sensor_id]
    /\ Counted("control", MaxPersonaCalls)
    /\ UNCHANGED <<clock, sequencer, drone, arp, percussion, composer, out>>

\* MelodyLayer.get_samples(num_samples, SAMPLE_RATE)
PersonaRender ==
    /\ \E num_samples \in {MaxSamples} :
       \E r \in {MelodyGetSamples(melody, num_samples, SAMPLE_RATE)} :
          /\ melody' = r[1]
          /\ out' = r[2]
          /\ obs' = [obs EXCEPT !.op = "melody.get_samples", !.arg = num_samples]
    /\ Counted("control", MaxPersonaCalls)
    /\ UNCHANGED <<clock, sequencer, drone, arp, percussion, composer>>

NextPersona ==
    \/ PersonaUpdate
    \/ PersonaTrigger
    \/ PersonaRender

SpecPersona == Init /\ [][NextPersona]_vars

\* C29: in every step a tracked voice keeps the personality first passed for
\* its id; update_personalities leaves the generator of a tracked voice as it
\* was and sets total_nervousness to the mean of the list it is given; and
\* trigger_by_sensor steps the voice by the nervousness and the pattern of
\* that first personality
C29_VoiceKeepsFirstPersonality ==
    [][/\ \A id \in DOMAIN melody'.voices :
             melody'.voices[id].personality = obs'.born[id]
       /\ obs'.op = "melody.update_personalities" =>
             /\ \A id \in DOMAIN melody.voices :
                   melody'.voices[id].rng = melody.voices[id].rng
             /\ melody'.total_nervousness = MeanNervousness(obs'.input)
       /\ obs'.op = "melody.trigger_by_sensor" /\ obs'.arg \in DOMAIN melody.voices =>
             melody'.voices[obs'.arg] =
                VoiceTriggerNote([melody.voices[obs'.arg] EXCEPT
                                     !.personality = obs.born[obs'.arg]])]_vars

\* C29: the voice of sensor 3, created nervous, has been triggered after a
\* list that carries a calm personality for sensor 3
C29_TriggeredAfterCalmerList ==
    /\ obs.op = "melody.trigger_by_sensor"
    /\ obs.arg = 3
    /\ 3 \in DOMAIN melody.voices
    /\ melody.voices[3].personality = NervousSensor
    /\ melody.voices[3].pattern_position > 0
    /\ obs.input = <<ReplacedSensor>>
    /\ melody.total_nervousness = MeanNervousness(<<ReplacedSensor>>)
    /\ MeanNervousness(<<ReplacedSensor>>) # MeanNervousness(<<NervousSensor>>)

----------------------------------------------------------------------------
(* SpecLock: the SoundEngine with a control path that never stops calling.  *)
(* The poll thread calls update, update_sensors, update_environment and the *)
(* trigger methods again and again, with no limit, while the audio thread   *)
(* makes its callbacks. No sensor with motion capability is polled, so the  *)
(* Composer tracks no voice and the calls of the control path bring it back *)
(* to states it has been in.                                                *)
(* SpecLockFair adds what the scheduling guarantees: a thread inside "with  *)
(* self._lock" runs on to the end of the block, and the audio thread, which *)
(* waits in Lock.acquire(), gets the lock at one of the times it is free.   *)

MaxLockCallbacks == 1    \* _audio_callback invocations explored

LockParams == {<<PlayingParams, SilentParams>>}
LockSensors == {<<TemperatureState>>}

\* _audio_callback is invoked with a number of frames
LockAudioCallback ==
    /\ Count("process", MaxLockCallbacks)
    /\ Arrive("audio", "process", 1)

\* update(params_list)
LockUpdate ==
    /\ \E params_list \in LockParams :
       \E scale \in MajorityScales(params_list) :
          Arrive("poll", "update", [lamps |-> Playing(params_list), scale |-> scale])
    /\ UNCHANGED calls

\* update_sensors(sensors)
LockUpdateSensors ==
    /\ \E sensors \in LockSensors :
          Arrive("poll", "update_sensors", EnginePersonalities(sensors))
    /\ UNCHANGED calls

\* update_environment(env)
LockUpdateEnvironment ==
    /\ \E tempo_modifier \in {12} :
          Arrive("poll", "update_environment", tempo_modifier)
    /\ UNCHANGED calls

\* trigger_percussion(sensor_id)
LockTriggerPercussion ==
    /\ \E sensor_id \in {NONE} :
          Arrive("poll", "trigger_percussion", sensor_id)
    /\ UNCHANGED calls

\* trigger_chord_change(button)
LockTriggerChordChange ==
    /\ \E button \in {1} :
          Arrive("poll", "trigger_chord_change", button)
    /\ UNCHANGED calls

\* the audio thread, waiting in Lock.acquire(), takes the lock
AudioAcquire == Acquire /\ lock' = "audio"

\* thread t, inside "with self._lock", runs the block to its end and leaves
\* it: the step Render of the audio thread, and LampsUpdated, SensorsUpdated,
\* EnvironmentUpdated, PercussionTriggered or ChordChangeTriggered of the
\* poll thread, seen on lock and pc
Leaves(t) ==
    /\ pc[t] = "running"
    /\ lock' = "free"
    /\ pc' = [pc EXCEPT ![t] = "idle"]

NextLock ==
    \/ LockAudioCallback
    \/ LockUpdate
    \/ LockUpdateSensors
    \/ LockUpdateEnvironment
    \/ LockTriggerPercussion
    \/ LockTriggerChordChange
    \/ Acquire
    \/ Render
    \/ LampsUpdated
    \/ SensorsUpdated
    \/ EnvironmentUpdated
    \/ PercussionTriggered
    \/ ChordChangeTriggered

SpecLock == Init /\ [][NextLock]_vars

SpecLockFair ==
    /\ SpecLock
    /\ \A t \in Threads : WF_<<lock, pc>>(Leaves(t))
    /\ SF_vars(AudioAcquire)

============================================================================
